---- MODULE Spec2Model ----
(***************************************************************************)
(* A model of astrbot_plugin_easy_comfyui: the ComfyUI client              *)
(* (comfyui_client.py: queue_prompt, wait_for_completion, execute_workflow, *)
(* cancel_prompt, interrupt, _enforce_deterministic_workflow) and the      *)
(* workflow parser (workflow_parser.py: _analyze_workflow_nodes,           *)
(* _classify_clip_nodes, _trace_link_source, prepare_workflow).            *)
(*                                                                         *)
(* Conventions.  An optional value (Python None or a value) is a sequence  *)
(* of length at most one: <<>> is None, <<v>> is the value v.  A JSON      *)
(* value is a record [k, n, s, items] tagged with its kind.  A dict is a   *)
(* sequence of entries in insertion order.  A string the code searches     *)
(* (a key, a class type) is spelled out character by character in Spell,   *)
(* so that a substring test is computed, not looked up.                    *)
(***************************************************************************)
EXTENDS Integers, Sequences, FiniteSets, TLC

\* ---------------------------------------------------------------- bounds

\* The configured timeout of a job, in poll intervals (timeout_seconds).
TimeoutSeconds == 2
\* random.randint(1, 2**63 - 1) draws from 1..RandMax.
RandMax == 2
\* The nodes of a history record's outputs map, and the images of one node.
MaxOutNodes == 2
MaxImages == 2

\* The most *.json files in the workflows directory.
MaxFiles == 2

\* The most nodes of a graph handed to the seed enforcer on its own.
MaxEnforceNodes == 2

\* The longest chain of passthrough nodes in a graph handed to the classifier.
MaxChain == 11

\* The clock of the jobs that share a backend stops here.
MaxClock == 4

\* The nodes of a graph made of role nodes only.
MaxRoleNodes == 4

\* max_concurrent_tasks of the configuration, and the commands users send.
MaxConcurrent == 2
MaxCommands == 3

\* ------------------------------------------------------- optional values

None == <<>>
Some(v) == <<v>>
IsNone(o) == o = <<>>
Get(o) == o[1]

\* `not prompt_id`, `if image_data`, `if not mapping.sampler_node`: None and
\* the empty string are falsy.
FalsyStr(o) == IsNone(o) \/ Get(o) = ""

\* ---------------------------------------------------------------- strings

\* The spelling of every string the code searches in.
Spell ==
    ("seed" :> <<"s", "e", "e", "d">>)
    @@ ("noise_seed" :> <<"n", "o", "i", "s", "e", "_", "s", "e", "e", "d">>)
    @@ ("Seed" :> <<"S", "e", "e", "d">>)
    @@ ("steps" :> <<"s", "t", "e", "p", "s">>)
    @@ ("text" :> <<"t", "e", "x", "t">>)
    @@ ("image" :> <<"i", "m", "a", "g", "e">>)
    @@ ("positive" :> <<"p", "o", "s", "i", "t", "i", "v", "e">>)
    @@ ("negative" :> <<"n", "e", "g", "a", "t", "i", "v", "e">>)
    @@ ("control_after_generate" :>
            <<"c", "o", "n", "t", "r", "o", "l", "_", "a", "f", "t", "e", "r", "_", "g",
            "e", "n", "e", "r", "a", "t", "e">>)
    @@ ("KSampler" :> <<"K", "S", "a", "m", "p", "l", "e", "r">>)
    @@ ("KSamplerAdvanced" :>
            <<"K", "S", "a", "m", "p", "l", "e", "r", "A", "d", "v", "a", "n", "c", "e",
            "d">>)
    @@ ("RandomNoise" :> <<"R", "a", "n", "d", "o", "m", "N", "o", "i", "s", "e">>)
    @@ ("CLIPTextEncode" :>
            <<"C", "L", "I", "P", "T", "e", "x", "t", "E", "n", "c", "o", "d", "e">>)
    @@ ("LoadImage" :> <<"L", "o", "a", "d", "I", "m", "a", "g", "e">>)
    @@ ("SaveImage" :> <<"S", "a", "v", "e", "I", "m", "a", "g", "e">>)
    @@ ("EmptyLatentImage" :>
            <<"E", "m", "p", "t", "y", "L", "a", "t", "e", "n", "t", "I", "m", "a", "g",
            "e">>)
    @@ ("Reroute" :> <<"R", "e", "r", "o", "u", "t", "e">>)
    @@ ("Sampler" :> <<"S", "a", "m", "p", "l", "e", "r">>)
    @@ ("Positive Prompt" :>
            <<"P", "o", "s", "i", "t", "i", "v", "e", " ", "P", "r", "o", "m", "p",
            "t">>)
    @@ ("Negative Prompt" :>
            <<"N", "e", "g", "a", "t", "i", "v", "e", " ", "P", "r", "o", "m", "p",
            "t">>)
    @@ ("Prompt" :> <<"P", "r", "o", "m", "p", "t">>)
    @@ ("masterpiece, cat" :>
            <<"m", "a", "s", "t", "e", "r", "p", "i", "e", "c", "e", ",", " ", "c", "a",
            "t">>)
    @@ ("ugly, blurry" :> <<"u", "g", "l", "y", ",", " ", "b", "l", "u", "r", "r", "y">>)
    @@ ("a cat" :> <<"a", " ", "c", "a", "t">>)
    @@ ("worst quality" :>
            <<"w", "o", "r", "s", "t", " ", "q", "u", "a", "l", "i", "t", "y">>)
    @@ ("low quality" :> <<"l", "o", "w", " ", "q", "u", "a", "l", "i", "t", "y">>)
    @@ ("bad anatomy" :> <<"b", "a", "d", " ", "a", "n", "a", "t", "o", "m", "y">>)
    @@ ("ugly" :> <<"u", "g", "l", "y">>)
    @@ ("best quality" :> <<"b", "e", "s", "t", " ", "q", "u", "a", "l", "i", "t", "y">>)
    @@ ("beautiful" :> <<"b", "e", "a", "u", "t", "i", "f", "u", "l">>)
    @@ ("detailed" :> <<"d", "e", "t", "a", "i", "l", "e", "d">>)
    @@ ("masterpiece" :> <<"m", "a", "s", "t", "e", "r", "p", "i", "e", "c", "e">>)
    @@ ("" :> <<>>)

\* str.lower() on one character, for the capitals that occur in Spell.
LowerChar(c) ==
    CASE c = "A" -> "a"
      [] c = "C" -> "c"
      [] c = "E" -> "e"
      [] c = "I" -> "i"
      [] c = "K" -> "k"
      [] c = "L" -> "l"
      [] c = "N" -> "n"
      [] c = "P" -> "p"
      [] c = "R" -> "r"
      [] c = "S" -> "s"
      [] c = "T" -> "t"
      [] OTHER -> c

\* str.lower()
Lower(cs) == [i \in 1..Len(cs) |-> LowerChar(cs[i])]

\* Python's `needle in haystack` on strings.
Contains(needle, haystack) ==
    \E i \in 0..(Len(haystack) - Len(needle)) :
        SubSeq(haystack, i + 1, i + Len(needle)) = needle

\* ------------------------------------------------------------ JSON values

\* A value is [k, n, s, items]: its kind, and the number, the string or the
\* items it holds; the fields its kind does not use stay 0, "" and <<>>.
IntV(n) == [k |-> "int", n |-> n, s |-> "", items |-> <<>>]
StrV(s) == [k |-> "str", n |-> 0, s |-> s, items |-> <<>>]
\* A list; a link reference is the list [source node id, output slot].
ListV(items) == [k |-> "list", n |-> 0, s |-> "", items |-> items]
LinkV(src, slot) == ListV(<<StrV(src), IntV(slot)>>)

\* isinstance(value, (int, float))
IsNumber(val) == val.k = "int"

\* A dict is a sequence of entries [name, val] in insertion order.
HasKey(d, name) == \E i \in 1..Len(d) : d[i].name = name
KeyIndex(d, name) == CHOOSE i \in 1..Len(d) : d[i].name = name
Lookup(d, name) == d[KeyIndex(d, name)].val
\* d = {name: val}: the dict is replaced by one that holds the key alone.
SetKeyAlone(d, name, val) == <<[name |-> name, val |-> val]>>

\* d[name] = val: an existing key keeps its place, a new key goes last.
SetKey(d, name, val) ==
    IF HasKey(d, name)
    THEN [d EXCEPT ![KeyIndex(d, name)] = [name |-> name, val |-> val]]
    ELSE Append(d, [name |-> name, val |-> val])

\* A graph is a sequence of nodes in the dict's iteration order; a node is
\* [id, is_dict, class_type, has_inputs, inputs, title].  class_type "" stands
\* for a missing class_type (node_data.get("class_type", "")), title StrV("")
\* for a missing _meta or title (.get("_meta", {}).get("title", "")).
Node(id, class_type, inputs) ==
    [id |-> id, is_dict |-> TRUE, class_type |-> class_type,
     has_inputs |-> TRUE, inputs |-> inputs, title |-> StrV("")]
Entry(name, val) == [name |-> name, val |-> val]
NodeIndex(graph, id) == CHOOSE i \in 1..Len(graph) : graph[i].id = id
HasNode(graph, id) == \E i \in 1..Len(graph) : graph[i].id = id

\* --------------------------------------------------------- Seed Enforcer

\* "seed" in k.lower()
IsSeedKey(name) == Contains(Spell["seed"], Lower(Spell[name]))

\* "Sampler" in class_type
IsSamplerClass(class_type) == Contains(Spell["Sampler"], Spell[class_type])

\* not isinstance(current_seed, (int, float)) or current_seed == -1
NeedsNewSeed(val) == IF IsNumber(val) THEN val.n = -1 ELSE TRUE

\* The random.randint calls one run of the enforcer makes on a graph.
RECURSIVE CountDraws(_, _)
CountDraws(graph, i) ==
    IF i > Len(graph) THEN 0
    ELSE (IF graph[i].is_dict /\ graph[i].has_inputs
          THEN Cardinality({j \in 1..Len(graph[i].inputs) :
                    /\ IsSeedKey(graph[i].inputs[j].name)
                    /\ NeedsNewSeed(graph[i].inputs[j].val)})
          ELSE 0) + CountDraws(graph, i + 1)

\* The loop over seed_keys of one node.  st = [inputs, main_seed,
\* ksampler_seed, draws]; draws are the values random.randint is still to return.
RECURSIVE enforce_seed_keys(_, _, _)
enforce_seed_keys(st, class_type, j) ==
    IF j > Len(st.inputs) THEN st
    ELSE IF ~IsSeedKey(st.inputs[j].name) THEN enforce_seed_keys(st, class_type, j + 1)
    ELSE
        LET cur == st.inputs[j].val
            fresh == NeedsNewSeed(cur)
            val == IF fresh THEN IntV(Head(st.draws)) ELSE cur
            draws == IF fresh THEN Tail(st.draws) ELSE st.draws
            inputs == [st.inputs EXCEPT ![j].val = val]
        IN  enforce_seed_keys(
                [inputs |-> inputs,
                 main_seed |-> IF ~IsSamplerClass(class_type) /\ IsNone(st.main_seed)
                               THEN Some(val.n) ELSE st.main_seed,
                 ksampler_seed |-> IF IsSamplerClass(class_type)
                                   THEN Some(val.n) ELSE st.ksampler_seed,
                 draws |-> draws],
                class_type, j + 1)

\* The control is forced to "fixed" only when it is "randomize".
fix_control_randomize_only(inputs) ==
    IF /\ HasKey(inputs, "control_after_generate")
       /\ Lookup(inputs, "control_after_generate") = StrV("randomize")
    THEN SetKey(inputs, "control_after_generate", StrV("fixed"))
    ELSE inputs

\* inputs["control_after_generate"] forced to "fixed"
fix_control(inputs) ==
    IF /\ HasKey(inputs, "control_after_generate")
       /\ Lookup(inputs, "control_after_generate") \in
              {StrV("randomize"), StrV("increment"), StrV("decrement")}
    THEN SetKey(inputs, "control_after_generate", StrV("fixed"))
    ELSE inputs

\* The loop over workflow_copy.values().  acc = [graph, main_seed,
\* ksampler_seed, draws].
RECURSIVE enforce_nodes(_, _)
enforce_nodes(acc, i) ==
    IF i > Len(acc.graph) THEN acc
    ELSE
        LET node == acc.graph[i]
        IN  IF ~node.is_dict \/ ~node.has_inputs THEN enforce_nodes(acc, i + 1)
            ELSE
                LET st == enforce_seed_keys(
                              [inputs |-> node.inputs, main_seed |-> acc.main_seed,
                               ksampler_seed |-> acc.ksampler_seed, draws |-> acc.draws],
                              node.class_type, 1)
                IN  enforce_nodes(
                        [graph |-> [acc.graph EXCEPT ![i].inputs = fix_control(st.inputs)],
                         main_seed |-> st.main_seed,
                         ksampler_seed |-> st.ksampler_seed,
                         draws |-> st.draws],
                        i + 1)

\* Python's `a or b` on optional integers: None and 0 are falsy.
Truthy(o) == ~IsNone(o) /\ Get(o) # 0

\* final_seed = ksampler_seed or main_seed or 0
final_seed(ksampler_seed, main_seed) ==
    IF Truthy(ksampler_seed) THEN Get(ksampler_seed)
    ELSE IF Truthy(main_seed) THEN Get(main_seed)
    ELSE 0

\* workflow_copy = workflow: the copy is the caller's graph itself, and what
\* is written to it is written to the caller's graph.
no_copy(workflow) == [graph |-> workflow, aliased |-> TRUE]

\* json.loads(json.dumps(workflow)): a graph that was read from a JSON file
\* and changed only by prepare_workflow holds string keys, strings, integers
\* and lists, which the round trip rebuilds one by one; the copy shares no
\* object with the caller's graph (aliased FALSE).
json_copy(workflow) ==
    [graph |-> [i \in 1..Len(workflow) |->
                   [workflow[i] EXCEPT
                       !.inputs = [j \in 1..Len(workflow[i].inputs) |->
                                      [name |-> workflow[i].inputs[j].name,
                                       val |-> workflow[i].inputs[j].val]]]],
     aliased |-> FALSE]

\* _enforce_deterministic_workflow(workflow) with random.randint returning
\* draws[1], draws[2], ...: the pair (workflow_copy, final_seed), and
\* argument, the caller's graph as the call leaves it.
enforce_deterministic_workflow(workflow, draws) ==
    LET copy == json_copy(workflow)
        acc == enforce_nodes(
                   [graph |-> copy.graph, main_seed |-> None,
                    ksampler_seed |-> None, draws |-> draws], 1)
    IN  [workflow |-> acc.graph, seed |-> final_seed(acc.ksampler_seed, acc.main_seed),
         argument |-> IF copy.aliased THEN acc.graph ELSE workflow]

RandomSeeds == 1..RandMax

\* Every way random.randint can answer the enforcer's calls on a graph.
EnforceDraws(workflow) == [1..CountDraws(workflow, 1) -> RandomSeeds]

\* ------------------------------------------------------- Graph Classifier

CLIP_TEXT_ENCODE_TYPES ==
    {"CLIPTextEncode", "CLIPTextEncodeSDXL", "AdvancedCLIPTextEncode",
     "CLIPTextEncodeSD3", "BNK_CLIPTextEncodeAdvanced"}
LATENT_IMAGE_TYPES == {"EmptyLatentImage", "EmptySD3LatentImage", "EmptyLatentImagePresets"}
SAMPLER_TYPES ==
    {"KSampler", "KSamplerAdvanced", "SamplerCustom", "SamplerCustomAdvanced",
     "KSampler (Efficient)", "KSamplerSelect"}
LOAD_IMAGE_TYPES == {"LoadImage", "LoadImageMask", "LoadImageFromUrl"}
OUTPUT_TYPES == {"PreviewImage", "SaveImage", "SaveImageWebsocket"}
TRT_LOADER_TYPES ==
    {"TensorRT Loader", "TensorRTLoader", "TensorRTLoaderSD3", "TensorRTLoaderFlux"}
PASSTHROUGH_TYPES == {"Reroute", "RerouteTextForCLIPTextEncodeForSDXL"}

\* WorkflowNodeMapping(); the prompt fields are "text".
EmptyMapping ==
    [positive_prompt_node |-> None, negative_prompt_node |-> None,
     latent_image_node |-> None, sampler_node |-> None, sampler_nodes |-> <<>>,
     load_image_node |-> None, output_node |-> None, has_tensorrt |-> FALSE]

positive_prompt_field == "text"
negative_prompt_field == "text"

\* A first loop in which every single-valued role keeps the first node that
\* matched it.
RECURSIVE analyze_pass_first_wins(_, _, _)
analyze_pass_first_wins(graph, i, acc) ==
    IF i > Len(graph) THEN acc
    ELSE IF ~graph[i].is_dict THEN analyze_pass_first_wins(graph, i + 1, acc)
    ELSE
        LET node_id == graph[i].id
            class_type == graph[i].class_type
            m0 == IF class_type \in TRT_LOADER_TYPES
                  THEN [acc.mapping EXCEPT !.has_tensorrt = TRUE] ELSE acc.mapping
            m1 == CASE class_type \in CLIP_TEXT_ENCODE_TYPES -> m0
                    [] class_type \in LATENT_IMAGE_TYPES ->
                        [m0 EXCEPT !.latent_image_node = IF FalsyStr(@) THEN Some(node_id) ELSE @]
                    [] class_type \in SAMPLER_TYPES ->
                        [m0 EXCEPT !.sampler_nodes = Append(@, node_id),
                                   !.sampler_node = IF FalsyStr(@) THEN Some(node_id) ELSE @]
                    [] class_type \in LOAD_IMAGE_TYPES ->
                        [m0 EXCEPT !.load_image_node = IF FalsyStr(@) THEN Some(node_id) ELSE @]
                    [] class_type \in OUTPUT_TYPES ->
                        [m0 EXCEPT !.output_node = IF FalsyStr(@) THEN Some(node_id) ELSE @]
                    [] OTHER -> m0
        IN  analyze_pass_first_wins(graph, i + 1,
                [mapping |-> m1,
                 clip_text_nodes |-> IF class_type \in CLIP_TEXT_ENCODE_TYPES
                                     THEN Append(acc.clip_text_nodes, i)
                                     ELSE acc.clip_text_nodes])

\* The first loop of _analyze_workflow_nodes.  acc = [mapping,
\* clip_text_nodes]; clip_text_nodes holds the places of the candidates.
RECURSIVE analyze_pass(_, _, _)
analyze_pass(graph, i, acc) ==
    IF i > Len(graph) THEN acc
    ELSE IF ~graph[i].is_dict THEN analyze_pass(graph, i + 1, acc)
    ELSE
        LET node_id == graph[i].id
            class_type == graph[i].class_type
            m0 == IF class_type \in TRT_LOADER_TYPES
                  THEN [acc.mapping EXCEPT !.has_tensorrt = TRUE] ELSE acc.mapping
            m1 == CASE class_type \in CLIP_TEXT_ENCODE_TYPES -> m0
                    [] class_type \in LATENT_IMAGE_TYPES ->
                        [m0 EXCEPT !.latent_image_node = Some(node_id)]
                    [] class_type \in SAMPLER_TYPES ->
                        [m0 EXCEPT !.sampler_nodes = Append(@, node_id),
                                   !.sampler_node = IF FalsyStr(@) THEN Some(node_id) ELSE @]
                    [] class_type \in LOAD_IMAGE_TYPES ->
                        [m0 EXCEPT !.load_image_node = Some(node_id)]
                    [] class_type \in OUTPUT_TYPES ->
                        [m0 EXCEPT !.output_node = Some(node_id)]
                    [] OTHER -> m0
        IN  analyze_pass(graph, i + 1,
                [mapping |-> m1,
                 clip_text_nodes |-> IF class_type \in CLIP_TEXT_ENCODE_TYPES
                                     THEN Append(acc.clip_text_nodes, i)
                                     ELSE acc.clip_text_nodes])

\* str() of small integers.
IntStr == <<"1", "2", "3", "4", "5", "6", "7", "8", "9">>

\* str(value): a string is itself, an integer its decimal digits; the repr
\* of anything else is the id of no node.
ToStr(val) ==
    CASE val.k = "str" -> val.s
      [] val.k = "int" /\ val.n \in 1..Len(IntStr) -> IntStr[val.n]
      [] OTHER -> "<repr>"

\* max_depth of _trace_link_source.
DefaultMaxDepth == 10

\* The first input of a passthrough node that is a list of two or more.
FirstLinkInput(inputs) ==
    LET links == {j \in 1..Len(inputs) : inputs[j].val.k = "list" /\ Len(inputs[j].val.items) >= 2}
    IN  IF links = {} THEN None
        ELSE Some(inputs[CHOOSE j \in links : \A h \in links : j <= h].val)

\* A tracer that looks at the immediate source only and follows no
\* passthrough node.
trace_link_source_direct(link_ref, graph, target_types, max_depth) ==
    IF max_depth <= 0 \/ link_ref.k # "list" \/ Len(link_ref.items) < 1
    THEN [raised |-> FALSE, value |-> None]
    ELSE IF ~HasNode(graph, ToStr(link_ref.items[1])) THEN [raised |-> FALSE, value |-> None]
    ELSE [raised |-> ~graph[NodeIndex(graph, ToStr(link_ref.items[1]))].is_dict,
          value |-> Some(ToStr(link_ref.items[1]))]

\* _trace_link_source: [raised, value]; raised when source_node is not a
\* dict (it has no .get).
RECURSIVE trace_link_source(_, _, _, _)
trace_link_source(link_ref, graph, target_types, max_depth) ==
    IF max_depth <= 0 \/ link_ref.k # "list" \/ Len(link_ref.items) < 1
    THEN [raised |-> FALSE, value |-> None]
    ELSE
        LET source_id == ToStr(link_ref.items[1])
        IN  IF ~HasNode(graph, source_id) THEN [raised |-> FALSE, value |-> None]
            ELSE
                LET source_node == graph[NodeIndex(graph, source_id)]
                    next == IF source_node.has_inputs
                            THEN FirstLinkInput(source_node.inputs) ELSE None
                IN  IF ~source_node.is_dict THEN [raised |-> TRUE, value |-> None]
                    ELSE IF source_node.class_type \in target_types
                    THEN [raised |-> FALSE, value |-> Some(source_id)]
                    ELSE IF source_node.class_type \in PASSTHROUGH_TYPES /\ ~IsNone(next)
                    THEN trace_link_source(Get(next), graph, target_types, max_depth - 1)
                    ELSE [raised |-> FALSE, value |-> Some(source_id)]

\* The ids of clip_text_nodes.
ClipIds(graph, clip_text_nodes) == {graph[clip_text_nodes[c]].id : c \in 1..Len(clip_text_nodes)}

\* A link step whose fallback takes the direct source whatever node it is.
link_polarity_any_source(ref, graph, clip_node_ids, current) ==
    IF ref.k = "list" /\ Len(ref.items) >= 1
    THEN LET t == trace_link_source(ref, graph, CLIP_TEXT_ENCODE_TYPES, DefaultMaxDepth)
         IN  IF t.raised THEN [raised |-> TRUE, value |-> current]
             ELSE IF ~FalsyStr(t.value) /\ Get(t.value) \in clip_node_ids
             THEN [raised |-> FALSE, value |-> t.value]
             ELSE [raised |-> FALSE, value |-> Some(ToStr(ref.items[1]))]
    ELSE [raised |-> FALSE, value |-> current]

\* One polarity of the link step: the traced source when it is a candidate,
\* else the direct source when it is one; [raised, value].
link_polarity(ref, graph, clip_node_ids, current) ==
    IF ref.k = "list" /\ Len(ref.items) >= 1
    THEN LET t == trace_link_source(ref, graph, CLIP_TEXT_ENCODE_TYPES, DefaultMaxDepth)
         IN  IF t.raised THEN [raised |-> TRUE, value |-> current]
             ELSE IF ~FalsyStr(t.value) /\ Get(t.value) \in clip_node_ids
             THEN [raised |-> FALSE, value |-> t.value]
             ELSE IF ToStr(ref.items[1]) \in clip_node_ids
             THEN [raised |-> FALSE, value |-> Some(ToStr(ref.items[1]))]
             ELSE [raised |-> FALSE, value |-> current]
    ELSE [raised |-> FALSE, value |-> current]

\* sampler_inputs.get(name, [])
InputOrEmptyList(node, name) ==
    IF node.has_inputs /\ HasKey(node.inputs, name) THEN Lookup(node.inputs, name)
    ELSE ListV(<<>>)

\* node_id in (mapping.positive_prompt_node, mapping.negative_prompt_node)
Assigned(m, node_id) ==
    m.positive_prompt_node = Some(node_id) \/ m.negative_prompt_node = Some(node_id)

\* The negative and positive markers of the title step; the two Chinese
\* markers are the characters U+8D1F and U+6B63.
TitleNegative(title) == Contains(Spell["negative"], title) \/ Contains(<<"U+8D1F">>, title)
TitlePositive(title) == Contains(Spell["positive"], title) \/ Contains(<<"U+6B63">>, title)

NegativeKeywords == {"worst quality", "low quality", "bad anatomy", "ugly"}
PositiveKeywords == {"masterpiece", "best quality", "beautiful", "detailed"}
TextNegative(text) == \E kw \in NegativeKeywords : Contains(Spell[kw], text)
TextPositive(text) == \E kw \in PositiveKeywords : Contains(Spell[kw], text)

\* The title loop (step = "title") and the content loop (step = "text") of
\* _classify_clip_nodes.  st = [raised, mapping]; .lower() raises on a value
\* that is no string.
RECURSIVE keyword_loop(_, _, _, _, _)
keyword_loop(step, graph, clip_text_nodes, c, st) ==
    IF st.raised \/ c > Len(clip_text_nodes) THEN st
    ELSE
        LET node == graph[clip_text_nodes[c]]
            m == st.mapping
            val == IF step = "title" THEN node.title
                   ELSE IF node.has_inputs /\ HasKey(node.inputs, "text")
                   THEN Lookup(node.inputs, "text") ELSE StrV("")
            lowered == Lower(Spell[val.s])
            neg == IF step = "title" THEN TitleNegative(lowered) ELSE TextNegative(lowered)
            pos == IF step = "title" THEN TitlePositive(lowered) ELSE TextPositive(lowered)
        IN  IF Assigned(m, node.id) THEN keyword_loop(step, graph, clip_text_nodes, c + 1, st)
            ELSE IF val.k # "str" THEN [raised |-> TRUE, mapping |-> m]
            ELSE IF FalsyStr(m.negative_prompt_node) /\ neg
            THEN keyword_loop(step, graph, clip_text_nodes, c + 1,
                     [raised |-> FALSE,
                      mapping |-> [m EXCEPT !.negative_prompt_node = Some(node.id)]])
            ELSE IF FalsyStr(m.positive_prompt_node) /\ pos
            THEN keyword_loop(step, graph, clip_text_nodes, c + 1,
                     [raised |-> FALSE,
                      mapping |-> [m EXCEPT !.positive_prompt_node = Some(node.id)]])
            ELSE keyword_loop(step, graph, clip_text_nodes, c + 1, st)

\* A classification without the order fallback.
order_loop_skipped(graph, clip_text_nodes, c, m) == m

\* An order fallback that gives the positive role to the first candidate
\* whatever the mapping holds.
order_loop_overwrite(graph, clip_text_nodes, c, m) ==
    [m EXCEPT !.positive_prompt_node = Some(graph[clip_text_nodes[1]].id)]

\* The last loop of _classify_clip_nodes: the order fallback.
RECURSIVE order_loop(_, _, _, _)
order_loop(graph, clip_text_nodes, c, m) ==
    IF c > Len(clip_text_nodes) THEN m
    ELSE
        LET node_id == graph[clip_text_nodes[c]].id
        IN  IF Assigned(m, node_id) THEN order_loop(graph, clip_text_nodes, c + 1, m)
            ELSE IF FalsyStr(m.positive_prompt_node)
            THEN order_loop(graph, clip_text_nodes, c + 1,
                     [m EXCEPT !.positive_prompt_node = Some(node_id)])
            ELSE IF FalsyStr(m.negative_prompt_node)
            THEN order_loop(graph, clip_text_nodes, c + 1,
                     [m EXCEPT !.negative_prompt_node = Some(node_id)])
            ELSE order_loop(graph, clip_text_nodes, c + 1, m)

\* The link step of _classify_clip_nodes: [raised, mapping].
link_step(graph, clip_text_nodes, mapping) ==
    IF ~FalsyStr(mapping.sampler_node) /\ HasNode(graph, Get(mapping.sampler_node))
    THEN LET sampler == graph[NodeIndex(graph, Get(mapping.sampler_node))]
             ids == ClipIds(graph, clip_text_nodes)
             p == link_polarity(InputOrEmptyList(sampler, "positive"), graph, ids,
                                mapping.positive_prompt_node)
             n == link_polarity(InputOrEmptyList(sampler, "negative"), graph, ids,
                                mapping.negative_prompt_node)
         IN  IF p.raised THEN [raised |-> TRUE, mapping |-> mapping]
             ELSE IF n.raised
             THEN [raised |-> TRUE,
                   mapping |-> [mapping EXCEPT !.positive_prompt_node = p.value]]
             ELSE [raised |-> FALSE,
                   mapping |-> [mapping EXCEPT !.positive_prompt_node = p.value,
                                               !.negative_prompt_node = n.value]]
    ELSE [raised |-> FALSE, mapping |-> mapping]

\* A classification that sends a single candidate through the polarity
\* steps like any other number of candidates.
classify_clip_nodes_no_shortcut(clip_text_nodes, mapping, graph) ==
    LET linked == link_step(graph, clip_text_nodes, mapping)
        titled == keyword_loop("title", graph, clip_text_nodes, 1, linked)
        texted == keyword_loop("text", graph, clip_text_nodes, 1, titled)
    IN  IF linked.raised THEN linked
        ELSE IF /\ ~FalsyStr(linked.mapping.positive_prompt_node)
                /\ ~FalsyStr(linked.mapping.negative_prompt_node)
        THEN linked
        ELSE IF texted.raised THEN texted
        ELSE [raised |-> FALSE,
              mapping |-> order_loop(graph, clip_text_nodes, 1, texted.mapping)]

\* _classify_clip_nodes: [raised, mapping].
classify_clip_nodes(clip_text_nodes, mapping, graph) ==
    IF Len(clip_text_nodes) = 0 THEN [raised |-> FALSE, mapping |-> mapping]
    ELSE IF Len(clip_text_nodes) = 1
    THEN [raised |-> FALSE,
          mapping |-> [mapping EXCEPT
                          !.positive_prompt_node = Some(graph[clip_text_nodes[1]].id)]]
    ELSE
        LET linked == link_step(graph, clip_text_nodes, mapping)
            titled == keyword_loop("title", graph, clip_text_nodes, 1, linked)
            texted == keyword_loop("text", graph, clip_text_nodes, 1, titled)
        IN  IF linked.raised THEN linked
            ELSE IF /\ ~FalsyStr(linked.mapping.positive_prompt_node)
                    /\ ~FalsyStr(linked.mapping.negative_prompt_node)
            THEN linked
            ELSE IF texted.raised THEN texted
            ELSE [raised |-> FALSE,
                  mapping |-> order_loop(graph, clip_text_nodes, 1, texted.mapping)]

\* _analyze_workflow_nodes: [raised, mapping].
analyze_workflow_nodes(workflow_data) ==
    LET acc == analyze_pass(workflow_data, 1,
                   [mapping |-> EmptyMapping, clip_text_nodes |-> <<>>])
    IN  classify_clip_nodes(acc.clip_text_nodes, acc.mapping, workflow_data)

\* ------------------------------------------------------ Template Registry

\* _parse_workflow_file raises on the i-th file: json.load fails, or the
\* classification of its graph raises.
ParseFails(json_files, i) ==
    IsNone(json_files[i]) \/ analyze_workflow_nodes(Get(json_files[i])).raised

\* A load that gives up the whole directory at the first file that raises.
load_all_workflows_until_failure(json_files) ==
    LET loaded == {i \in 1..Len(json_files) : \A h \in 1..i : ~ParseFails(json_files, h)}
    IN  [i \in loaded |->
            [workflow_data |-> Get(json_files[i]),
             node_mapping |-> analyze_workflow_nodes(Get(json_files[i])).mapping]]

\* _load_all_workflows over the sorted *.json files of the directory.
\* json_files[i] is the parsed content of the i-th file, or None when
\* json.load fails; a file that raises is logged and leaves its index out.
load_all_workflows(json_files) ==
    LET loaded == {i \in 1..Len(json_files) : ~ParseFails(json_files, i)}
    IN  [i \in loaded |->
            [workflow_data |-> Get(json_files[i]),
             node_mapping |-> analyze_workflow_nodes(Get(json_files[i])).mapping]]

\* get_workflow: self.workflows.get(index)
get_workflow(registry, index) ==
    IF index \in DOMAIN registry THEN Some(registry[index]) ELSE None

\* get_workflow_count: len(self.workflows)
get_workflow_count(registry) == Cardinality(DOMAIN registry)

\* list_workflows: the entries in the order of their indexes; the name of an
\* entry is the name of its file, which its index stands for.
list_workflows(registry) ==
    CHOOSE seq \in [1..Cardinality(DOMAIN registry) -> DOMAIN registry] :
        \A a, b \in 1..Cardinality(DOMAIN registry) : a < b => seq[a] < seq[b]

\* ------------------------------------------------------ Workflow Preparer

\* dict(workflow_info.workflow_data): a new dict that holds the template's
\* own node dicts, so that a write to a node is a write to the template.
shallow_copy(workflow_data) == [graph |-> workflow_data, aliased |-> TRUE]

\* copy.deepcopy(workflow_info.workflow_data): equal to the original and
\* sharing nothing with it (aliased FALSE).
deepcopy(workflow_data) == [graph |-> workflow_data, aliased |-> FALSE]

\* workflow[node_id]["inputs"][field] = value: [raised, workflow]; a node
\* without "inputs" raises KeyError.
write_input(wf, node_id, name, val) ==
    LET i == NodeIndex(wf, node_id)
    IN  IF ~wf[i].has_inputs THEN [raised |-> TRUE, workflow |-> wf]
        ELSE [raised |-> FALSE,
              workflow |-> [wf EXCEPT ![i].inputs = SetKey(@, name, val)]]

\* One prompt write of prepare_workflow: nothing when the role is unset or
\* names no node of the graph.
write_role(wf, role_node, name, val) ==
    IF ~FalsyStr(role_node) /\ HasNode(wf, Get(role_node))
    THEN write_input(wf, Get(role_node), name, val)
    ELSE [raised |-> FALSE, workflow |-> wf]

\* A variant of the sampler loop that writes the seed to the primary sampler only.
RECURSIVE write_sampler_seeds_primary_only(_, _, _, _)
write_sampler_seeds_primary_only(wf, sampler_nodes, c, actual_seed) ==
    IF c > Len(sampler_nodes) \/ c > 1 THEN wf
    ELSE IF ~HasNode(wf, sampler_nodes[c])
    THEN write_sampler_seeds_primary_only(wf, sampler_nodes, c + 1, actual_seed)
    ELSE
        LET i == NodeIndex(wf, sampler_nodes[c])
            inputs == IF wf[i].has_inputs THEN wf[i].inputs ELSE <<>>
        IN  write_sampler_seeds_primary_only(
                [wf EXCEPT ![i].has_inputs = TRUE,
                           ![i].inputs = SetKey(inputs, "seed", IntV(actual_seed))],
                sampler_nodes, c + 1, actual_seed)

\* The loop over mapping.sampler_nodes: "inputs" is created when missing and
\* inputs["seed"] takes actual_seed.
RECURSIVE write_sampler_seeds(_, _, _, _)
write_sampler_seeds(wf, sampler_nodes, c, actual_seed) ==
    IF c > Len(sampler_nodes) THEN wf
    ELSE IF ~HasNode(wf, sampler_nodes[c])
    THEN write_sampler_seeds(wf, sampler_nodes, c + 1, actual_seed)
    ELSE
        LET i == NodeIndex(wf, sampler_nodes[c])
            inputs == IF wf[i].has_inputs THEN wf[i].inputs ELSE <<>>
        IN  write_sampler_seeds(
                [wf EXCEPT ![i].has_inputs = TRUE,
                           ![i].inputs = SetKey(inputs, "seed", IntV(actual_seed))],
                sampler_nodes, c + 1, actual_seed)

\* What prepare_workflow returns when the index names no template.
PrepareNothing ==
    [raised |-> FALSE, workflow |-> None, seed |-> None, negative_prompt |-> None,
     aliased |-> FALSE]

\* What is left of prepare_workflow when one of its writes raises KeyError.
PrepareRaised ==
    [raised |-> TRUE, workflow |-> None, seed |-> None, negative_prompt |-> None,
     aliased |-> FALSE]

\* prepare_workflow(workflow_index, positive_prompt, negative_prompt, seed,
\* input_image_filename) with random.randint returning draw:
\* [raised, workflow, seed, negative_prompt]; aliased tells whether the
\* returned graph shares its nodes with the stored template.
prepare_workflow(registry, workflow_index, positive_prompt, negative_prompt, seed, input_image_filename, draw) ==
    LET workflow_info == get_workflow(registry, workflow_index)
    IN  IF IsNone(workflow_info) THEN PrepareNothing
        ELSE
            LET mapping == Get(workflow_info).node_mapping
                copy == deepcopy(Get(workflow_info).workflow_data)
                w0 == copy.graph
                w1 == write_role(w0, mapping.positive_prompt_node,
                                 positive_prompt_field, StrV(positive_prompt))
                w2 == write_role(w1.workflow, mapping.negative_prompt_node,
                                 negative_prompt_field, StrV(negative_prompt))
                actual_seed == IF ~IsNone(seed) THEN Get(seed) ELSE draw
                w3 == write_sampler_seeds(w2.workflow, mapping.sampler_nodes, 1, actual_seed)
                w4 == IF ~FalsyStr(input_image_filename)
                      THEN write_role(w3, mapping.load_image_node, "image",
                                      StrV(Get(input_image_filename)))
                      ELSE [raised |-> FALSE, workflow |-> w3]
            IN  IF w1.raised \/ w2.raised \/ w4.raised THEN PrepareRaised
                ELSE [raised |-> FALSE, workflow |-> Some(w4.workflow),
                      seed |-> Some(actual_seed),
                      negative_prompt |-> Some(negative_prompt),
                      aliased |-> copy.aliased]

\* -------------------------------------------------- the backend's answers

\* The job id the backend assigns, and the id of some other job.
JobId == "42"
OtherJobId == "43"

\* A call that raised (aiohttp.ClientError, asyncio.TimeoutError) or an HTTP
\* status.  The answer to POST /prompt: the prompt_id of its JSON body.
SubmitResponses ==
    {[kind |-> "exception", status |-> 0, prompt_id |-> None],
     [kind |-> "http", status |-> 500, prompt_id |-> None],
     [kind |-> "http", status |-> 500, prompt_id |-> Some(JobId)],
     [kind |-> "http", status |-> 200, prompt_id |-> None],
     [kind |-> "http", status |-> 200, prompt_id |-> Some("")],
     [kind |-> "http", status |-> 200, prompt_id |-> Some(JobId)]}

\* The answers to POST /api/queue, POST /interrupt.
PlainResponses ==
    {[kind |-> "exception", status |-> 0],
     [kind |-> "http", status |-> 500],
     [kind |-> "http", status |-> 200]}

\* The answers to GET /view: the bytes read, b"" included.
ViewResponses ==
    {[kind |-> "exception", status |-> 0, data |-> ""],
     [kind |-> "http", status |-> 404, data |-> ""],
     [kind |-> "http", status |-> 200, data |-> ""],
     [kind |-> "http", status |-> 200, data |-> "png"]}

\* An image descriptor of a history record; has_type FALSE: no "type" key.
ImageTypes == {[has_type |-> FALSE, type |-> ""], [has_type |-> TRUE, type |-> "output"],
               [has_type |-> TRUE, type |-> "temp"]}

\* The images list of the n-th node: the filename tells the images apart.
MkImages(n, types) ==
    [j \in 1..Len(types) |->
        [filename |-> 10 * n + j, has_type |-> types[j].has_type, type |-> types[j].type]]

ImageTypeLists == UNION {[1..m -> ImageTypes] : m \in 0..MaxImages}

\* One node's output: without an "images" key, or with an images list.
NodeShapes ==
    {[has_images |-> FALSE, types |-> <<>>]}
    \cup {[has_images |-> TRUE, types |-> ts] : ts \in ImageTypeLists}

\* The outputs maps of a history record.
OutputsMaps ==
    {[n \in 1..Len(shape) |->
         [has_images |-> shape[n].has_images, images |-> MkImages(n, shape[n].types)]] :
     shape \in UNION {[1..m -> NodeShapes] : m \in 0..MaxOutNodes}}

\* The status object of a history record; has_status FALSE: no "status" key.
StatusObjects ==
    {[has_status |-> FALSE, status_str |-> "", messages |-> ""],
     [has_status |-> TRUE, status_str |-> "success", messages |-> ""],
     [has_status |-> TRUE, status_str |-> "error", messages |-> "m1"],
     [has_status |-> TRUE, status_str |-> "error", messages |-> "m2"]}

\* The outputs maps the polled backend reports: at most one node, holding
\* at most one image.  (Every map of OutputsMaps is the input of the image
\* selection under ExtractSpec.)
PolledOutputs ==
    {o \in OutputsMaps : Len(o) <= 1 /\ \A n \in 1..Len(o) : Len(o[n].images) <= 1}

\* The history records of a job whose outputs map, if any, is one of outs.
HistoryRecords(outs) ==
    {[has_outputs |-> FALSE, outputs |-> <<>>, status |-> st] : st \in StatusObjects}
    \cup {[has_outputs |-> TRUE, outputs |-> o, status |-> st] :
              o \in outs, st \in StatusObjects}

\* The JSON bodies of GET /history/{prompt_id}: a dict from job id to record.
HistoryBodies ==
    {<<>>}
    \cup {<<[id |-> OtherJobId,
            rec |-> [has_outputs |-> TRUE, outputs |-> <<>>,
                     status |-> [has_status |-> FALSE, status_str |-> "", messages |-> ""]]]>>}
    \cup {<<[id |-> JobId, rec |-> r]>> : r \in HistoryRecords(PolledOutputs)}

HistoryResponses ==
    {[kind |-> "exception", status |-> 0, body |-> <<>>],
     [kind |-> "http", status |-> 500, body |-> <<>>]}
    \cup {[kind |-> "http", status |-> 200, body |-> b] : b \in HistoryBodies}

\* ------------------------------------------------------------ the client

\* poll_interval of wait_for_completion, in seconds.
PollInterval == 1

\* The status messages of execute_workflow, the source's Chinese literals in
\* English: submitting the workflow failed; execution timed out (..s);
\* execution error; execution completed; generated; no output image found.
MsgSubmitFailed == "submit_failed"
MsgTimeout == "timeout"
MsgExecError == "exec_error"
MsgCompleted == "completed"
MsgSuccess == "success"
MsgNoOutput == "no_output_image"

\* `if history`: None and the empty dict are falsy.
FalsyDict(o) == IsNone(o) \/ Get(o) = <<>>

\* ensure_session: a session is created when there is none.
ensure_session(s) == IF s = "none" \/ s = "closed" THEN "open" ELSE s

\* ensure_session that constructs a ClientSession on every call.
needs_session_always(s) == TRUE

\* The condition of ensure_session: there is no session, or it is closed.
needs_session(s) == s = "none" \/ s = "closed"

\* The ClientSession an HTTP call goes through, right after its
\* ensure_session: a newly constructed one, which gets a number no earlier
\* session has, or self.session as it is.
session_id(s, ids) ==
    IF needs_session(s) THEN Len(ids) + 1 ELSE ids[Len(ids)]

\* queue_prompt that reads the prompt_id of the body whatever the status.
queue_prompt_any_status(resp, current_seed) ==
    IF resp.kind = "exception" THEN [prompt_id |-> None, seed |-> None]
    ELSE [prompt_id |-> resp.prompt_id, seed |-> Some(current_seed)]

\* queue_prompt's return value (prompt_id, current_seed) on the backend's answer.
queue_prompt(resp, current_seed) ==
    IF resp.kind = "exception" THEN [prompt_id |-> None, seed |-> None]
    ELSE IF resp.status = 200 THEN [prompt_id |-> resp.prompt_id, seed |-> Some(current_seed)]
    ELSE [prompt_id |-> None, seed |-> None]

\* get_history's return value on the backend's answer.
get_history(resp) ==
    IF resp.kind = "exception" THEN None
    ELSE IF resp.status = 200 THEN Some(resp.body)
    ELSE None

\* get_image's return value on the backend's answer.
get_image(resp) ==
    IF resp.kind = "exception" THEN None
    ELSE IF resp.status = 200 THEN Some(resp.data)
    ELSE None

\* elapsed > timeout_seconds at the top of the poll loop.
timed_out(now, start) == now - start > TimeoutSeconds

\* check_history that gives up on the first answer without a record of the
\* job: the poll loop returns instead of going on to its sleep.
check_history_gives_up(hist, id) ==
    IF ~FalsyDict(hist) /\ HasNode(Get(hist), id)
    THEN LET prompt_history == Get(hist)[NodeIndex(Get(hist), id)].rec
         IN  IF prompt_history.has_outputs
             THEN IF /\ prompt_history.status.has_status
                     /\ prompt_history.status.status_str = "error"
                  THEN Some([success |-> FALSE, result |-> None, status_msg |-> MsgExecError])
                  ELSE Some([success |-> TRUE, result |-> Some(prompt_history),
                             status_msg |-> MsgCompleted])
             ELSE None
    ELSE Some([success |-> FALSE, result |-> None, status_msg |-> MsgExecError])

\* check_history that completes a job only on a status of "success".
check_history_needs_success(hist, id) ==
    IF ~FalsyDict(hist) /\ HasNode(Get(hist), id)
    THEN LET prompt_history == Get(hist)[NodeIndex(Get(hist), id)].rec
         IN  IF prompt_history.has_outputs
             THEN IF /\ prompt_history.status.has_status
                     /\ prompt_history.status.status_str = "error"
                  THEN Some([success |-> FALSE, result |-> None, status_msg |-> MsgExecError])
                  ELSE IF /\ prompt_history.status.has_status
                          /\ prompt_history.status.status_str = "success"
                  THEN Some([success |-> TRUE, result |-> Some(prompt_history),
                             status_msg |-> MsgCompleted])
                  ELSE None
             ELSE None
    ELSE None

\* One pass of wait_for_completion's loop body after get_history returned:
\* None when the loop goes on to sleep, else the triple it returns.
check_history(hist, id) ==
    IF ~FalsyDict(hist) /\ HasNode(Get(hist), id)
    THEN LET prompt_history == Get(hist)[NodeIndex(Get(hist), id)].rec
         IN  IF prompt_history.has_outputs
             THEN IF /\ prompt_history.status.has_status
                     /\ prompt_history.status.status_str = "error"
                  THEN Some([success |-> FALSE, result |-> None, status_msg |-> MsgExecError])
                  ELSE Some([success |-> TRUE, result |-> Some(prompt_history),
                             status_msg |-> MsgCompleted])
             ELSE None
    ELSE None

\* img_data of an image_info: the folder type defaults to "output".
img_data(image_info) ==
    [filename |-> image_info.filename,
     subfolder |-> "",
     folder_type |-> IF image_info.has_type THEN image_info.type ELSE "output"]

\* The inner loop over node_output["images"].
RECURSIVE scan_images(_, _, _)
scan_images(images, j, target) ==
    IF j > Len(images) THEN target
    ELSE IF img_data(images[j]).folder_type = "output" THEN Some(img_data(images[j]))
    ELSE scan_images(images, j + 1,
                     IF IsNone(target) THEN Some(img_data(images[j])) ELSE target)

\* The outer loop leaving at the first node that gave any image.
RECURSIVE scan_outputs_first_image(_, _, _)
scan_outputs_first_image(outputs, i, target) ==
    IF i > Len(outputs) THEN target
    ELSE IF ~outputs[i].has_images THEN scan_outputs_first_image(outputs, i + 1, target)
    ELSE LET t == scan_images(outputs[i].images, 1, target)
         IN  IF ~IsNone(t) THEN t
             ELSE scan_outputs_first_image(outputs, i + 1, t)

\* The outer loop over result["outputs"].values().
RECURSIVE scan_outputs(_, _, _)
scan_outputs(outputs, i, target) ==
    IF i > Len(outputs) THEN target
    ELSE IF ~outputs[i].has_images THEN scan_outputs(outputs, i + 1, target)
    ELSE LET t == scan_images(outputs[i].images, 1, target)
         IN  IF ~IsNone(t) /\ Get(t).folder_type = "output" THEN t
             ELSE scan_outputs(outputs, i + 1, t)

\* target_image of execute_workflow.
select_target_image(result) ==
    IF ~IsNone(result) /\ Get(result).has_outputs
    THEN scan_outputs(Get(result).outputs, 1, None)
    ELSE None

\* cancel_prompt without its try/except: the exception of the POST leaves
\* cancel_prompt and its callers.
cancel_prompt_uncaught(resp) ==
    IF resp.kind = "exception" THEN "raise" ELSE "interrupt"

\* cancel_prompt after its POST /api/queue: an exception skips to the
\* handler, which returns False; any status goes on to interrupt().
cancel_prompt_after_delete(resp) ==
    IF resp.kind = "exception" THEN "return_false" ELSE "interrupt"

\* What execute_workflow returns.
Outcome(success, image_data, status_msg, seed) ==
    [success |-> success, image_data |-> image_data, status_msg |-> status_msg, seed |-> seed]

\* ------------------------------------------------------------------ state

VARIABLES
    pc,             \* where execute_workflow stands
    clock,          \* asyncio.get_event_loop().time()
    start_time,     \* wait_for_completion's start_time
    session,        \* self.session: "none", "open" or "closed"
    session_ids,    \* the ClientSession of each HTTP call, numbered as constructed
    workflow,       \* execute_workflow's argument
    known_seed,     \* execute_workflow's argument
    payload,        \* the graph sent to POST /prompt
    prompt_id,      \* the job id queue_prompt returned
    used_seed,      \* execute_workflow's used_seed
    history,        \* what get_history returned last
    wait_result,    \* what wait_for_completion returned
    target_image,   \* execute_workflow's target_image
    calls,          \* the HTTP calls of execute_workflow, in order
    submit_resp,    \* the answer to POST /prompt
    delete_resp,    \* the answer to the timeout's POST /api/queue
    returned,       \* the results execute_workflow has returned
    error_reported, \* a poll has returned a record of the job with an error status
    cancel_pc,      \* where the caller's own cancel_prompt stands
    cancel_calls,   \* the HTTP calls of the caller's cancel_prompt
    workflows,      \* WorkflowParser.workflows: index -> template
    prepare_args,   \* the arguments of the prepare_workflow call
    prepared,       \* what prepare_workflow returned
    workflow_data,  \* the graph handed to the classifier and to the link tracer
    analysis,       \* what _analyze_workflow_nodes did: [raised, mapping]
    traced,         \* the last _trace_link_source call: [link_ref, raised, value]
    files,          \* the parsed *.json files of workflows_dir, sorted by name
    loaded_files,   \* history: what the directory held at the last load
    observed,       \* the last read of the registry: [op, index, result]
    i2i,            \* the img2img command: where it stands and its locals
    backend,        \* the ComfyUI server: its queue, the job it executes, each job's fate
    tasks,          \* the execute_workflow tasks of the jobs in flight together
    active_tasks,   \* self.active_tasks
    task_semaphore, \* the value of self.task_semaphore
    commands        \* the gen and i2i commands: where each stands, how it ended

vars == <<pc, clock, start_time, session, session_ids, workflow, known_seed, payload, prompt_id,
          used_seed, history, wait_result, target_image, calls, submit_resp, delete_resp,
          returned, error_reported, cancel_pc, cancel_calls,
          workflows, prepare_args, prepared, workflow_data, analysis, traced,
          files, loaded_files, observed, i2i, backend, tasks,
          active_tasks, task_semaphore, commands>>

\* The state of the registry and of the preparer's call.
parser_vars == <<workflows, prepare_args, prepared>>

\* The state of a classification on its own.
classifier_vars == <<workflow_data, analysis, traced>>

\* The workflows directory, the reads of the registry and the img2img command.
registry_vars == <<files, loaded_files, observed, i2i>>

\* The backend and the tasks of the jobs that share it.
backend_vars == <<backend, tasks>>

\* The admission of commands: the counter, the semaphore and the commands.
admission_vars == <<active_tasks, task_semaphore, commands>>

\* The jobs in flight together on one backend.
BackendJobs == {JobId, OtherJobId}

\* The backend with nothing queued and nothing executing.  Each job is
\* "absent", "queued", "executing", "deleted", "success" or "interrupted";
\* stopped_by is the job whose cancel_prompt sent the interrupt that stopped
\* it.
BackendIdle ==
    [queue |-> <<>>, executing |-> None,
     state |-> [j \in BackendJobs |-> "absent"],
     stopped_by |-> [j \in BackendJobs |-> ""]]

\* The img2img command before it is called.
I2IIdle ==
    [pc |-> "idle", workflow_idx |-> 0, uploaded_name |-> "", mapping |-> None,
     workflow |-> None]

\* The graphs execute_workflow is called with here: one sampler whose seed
\* is concrete or the randomize sentinel.
ExecWorkflows ==
    {<<Node("3", "KSampler", <<Entry("seed", IntV(s)), Entry("steps", IntV(20))>>)>> :
        s \in {-1, RandMax}}

ExecKnownSeeds == {None, Some(RandMax)}

Init ==
    /\ pc = "queue_prompt"
    /\ clock = 0
    /\ start_time = 0
    /\ session = "none"
    /\ session_ids = <<>>
    /\ workflow \in ExecWorkflows
    /\ known_seed \in ExecKnownSeeds
    /\ payload = None
    /\ prompt_id = None
    /\ used_seed = None
    /\ history = None
    /\ wait_result = None
    /\ target_image = None
    /\ calls = <<>>
    /\ submit_resp = None
    /\ delete_resp = None
    /\ returned = <<>>
    /\ error_reported = FALSE
    /\ cancel_pc = "idle"
    /\ cancel_calls = <<>>
    /\ workflows = <<>>
    /\ prepare_args = None
    /\ prepared = None
    /\ workflow_data = <<>>
    /\ analysis = None
    /\ traced = None
    /\ files = <<>>
    /\ loaded_files = <<>>
    /\ observed = None
    /\ i2i = I2IIdle
    /\ backend = BackendIdle
    /\ tasks = <<>>
    /\ active_tasks = 0
    /\ task_semaphore = MaxConcurrent
    /\ commands = <<>>

\* ---------------------------------------------------------------- actions

\* execute_workflow up to its first poll: queue_prompt (ensure_session, the
\* seed enforcer, POST /prompt), the submit-failed return, used_seed, and
\* wait_for_completion's start_time.
QueuePrompt ==
    /\ pc = "queue_prompt"
    /\ \E resp \in SubmitResponses, draws \in EnforceDraws(workflow) :
        LET fixed == enforce_deterministic_workflow(workflow, draws)
            res == queue_prompt(resp, fixed.seed)
        IN  /\ session' = ensure_session(session)
            /\ session_ids' = Append(session_ids, session_id(session, session_ids))
            /\ workflow' = fixed.argument
            /\ payload' = Some(fixed.workflow)
            /\ calls' = Append(calls, "prompt")
            /\ submit_resp' = Some(resp)
            /\ IF FalsyStr(res.prompt_id)
               THEN /\ returned' = Append(returned, Outcome(FALSE, None, MsgSubmitFailed, None))
                    /\ pc' = "done"
                    /\ UNCHANGED <<prompt_id, used_seed, start_time>>
               ELSE /\ prompt_id' = res.prompt_id
                    /\ used_seed' = IF ~IsNone(known_seed) THEN known_seed ELSE res.seed
                    /\ start_time' = clock
                    /\ pc' = "poll"
                    /\ UNCHANGED returned
    /\ UNCHANGED <<clock, known_seed, history, wait_result, target_image,
                   delete_resp, error_reported, cancel_pc, cancel_calls>>
    /\ UNCHANGED <<parser_vars, classifier_vars, registry_vars, backend_vars, admission_vars>>

\* A record of the job with a status that signals an error, in the answer.
ReportsError(resp, id) ==
    /\ resp.kind = "http" /\ resp.status = 200
    /\ \E i \in 1..Len(resp.body) :
        /\ resp.body[i].id = id
        /\ resp.body[i].rec.status.has_status
        /\ resp.body[i].rec.status.status_str = "error"

\* One pass of the poll loop within the timeout: get_history, then the
\* error return (which execute_workflow passes on), or the completed return,
\* or on to the sleep.
PollHistory ==
    /\ pc = "poll"
    /\ ~timed_out(clock, start_time)
    /\ \E resp \in HistoryResponses :
        LET hist == get_history(resp)
            ret == check_history(hist, Get(prompt_id))
        IN  /\ session' = ensure_session(session)
            /\ session_ids' = Append(session_ids, session_id(session, session_ids))
            /\ history' = hist
            /\ calls' = Append(calls, "history")
            /\ error_reported' = (error_reported \/ ReportsError(resp, Get(prompt_id)))
            /\ IF IsNone(ret)
               THEN /\ pc' = "sleep"
                    /\ UNCHANGED <<wait_result, returned>>
               ELSE /\ wait_result' = ret
                    /\ IF ~Get(ret).success
                       THEN /\ returned' = Append(returned,
                                   Outcome(FALSE, None, Get(ret).status_msg, used_seed))
                            /\ pc' = "done"
                       ELSE pc' = "select_image" /\ UNCHANGED returned
    /\ UNCHANGED <<submit_resp, clock, start_time, workflow, known_seed, payload, prompt_id,
                   used_seed, target_image, delete_resp, cancel_pc, cancel_calls>>
    /\ UNCHANGED <<parser_vars, classifier_vars, registry_vars, backend_vars, admission_vars>>

\* execute_workflow after a successful wait: the choice of target_image,
\* and the return when there is none.
SelectImage ==
    /\ pc = "select_image"
    /\ LET target == select_target_image(Get(wait_result).result)
       IN  /\ target_image' = target
           /\ IF ~IsNone(target)
              THEN pc' = "get_image" /\ UNCHANGED returned
              ELSE /\ returned' = Append(returned,
                          Outcome(FALSE, None, MsgNoOutput, used_seed))
                   /\ pc' = "done"
    /\ UNCHANGED <<submit_resp, clock, start_time, session, session_ids, workflow, known_seed, payload,
                   prompt_id, used_seed, history, wait_result, calls, delete_resp,
                   error_reported, cancel_pc, cancel_calls>>
    /\ UNCHANGED <<parser_vars, classifier_vars, registry_vars, backend_vars, admission_vars>>

\* await asyncio.sleep(poll_interval): the sleep lasts the interval or longer.
Sleep ==
    /\ pc = "sleep"
    /\ \E dt \in {PollInterval, 2 * PollInterval} : clock' = clock + dt
    /\ pc' = "poll"
    /\ UNCHANGED <<submit_resp, start_time, session, session_ids, workflow, known_seed, payload,
                   prompt_id, used_seed, history, wait_result, target_image, calls,
                   delete_resp, returned, error_reported, cancel_pc, cancel_calls>>
    /\ UNCHANGED <<parser_vars, classifier_vars, registry_vars, backend_vars, admission_vars>>

\* The timeout branch: cancel_prompt's POST /api/queue.  When the call
\* raises, cancel_prompt returns False and wait_for_completion returns the
\* timeout at once.
TimeoutCancel ==
    /\ pc = "poll"
    /\ timed_out(clock, start_time)
    /\ \E resp \in PlainResponses :
        /\ session' = ensure_session(session)
        /\ session_ids' = Append(session_ids, session_id(session, session_ids))
        /\ calls' = Append(calls, "queue_delete")
        /\ delete_resp' = Some(resp)
        /\ CASE cancel_prompt_after_delete(resp) = "interrupt" ->
                    pc' = "interrupt" /\ UNCHANGED <<wait_result, returned>>
             [] cancel_prompt_after_delete(resp) = "return_false" ->
                    /\ wait_result' = Some([success |-> FALSE, result |-> None,
                                            status_msg |-> MsgTimeout])
                    /\ returned' = Append(returned,
                           Outcome(FALSE, None, MsgTimeout, used_seed))
                    /\ pc' = "done"
             [] OTHER ->
                    \* an exception leaves execute_workflow: nothing is returned
                    pc' = "raised" /\ UNCHANGED <<wait_result, returned>>
    /\ UNCHANGED <<submit_resp, clock, start_time, workflow, known_seed, payload, prompt_id,
                   used_seed, history, target_image, error_reported, cancel_pc, cancel_calls>>
    /\ UNCHANGED <<parser_vars, classifier_vars, registry_vars, backend_vars, admission_vars>>

\* cancel_prompt's interrupt(): whatever POST /interrupt answers,
\* cancel_prompt returns and wait_for_completion returns the timeout.
TimeoutInterrupt ==
    /\ pc = "interrupt"
    /\ \E resp \in PlainResponses :
        /\ session' = ensure_session(session)
        /\ session_ids' = Append(session_ids, session_id(session, session_ids))
        /\ calls' = Append(calls, "interrupt")
        /\ wait_result' = Some([success |-> FALSE, result |-> None, status_msg |-> MsgTimeout])
        /\ returned' = Append(returned, Outcome(FALSE, None, MsgTimeout, used_seed))
        /\ pc' = "done"
    /\ UNCHANGED <<submit_resp, clock, start_time, workflow, known_seed, payload, prompt_id,
                   used_seed, history, target_image, delete_resp, error_reported, cancel_pc,
                   cancel_calls>>
    /\ UNCHANGED <<parser_vars, classifier_vars, registry_vars, backend_vars, admission_vars>>

\* execute_workflow's get_image and its last two returns.
GetImage ==
    /\ pc = "get_image"
    /\ \E resp \in ViewResponses :
        LET image_data == get_image(resp)
        IN  /\ session' = ensure_session(session)
            /\ session_ids' = Append(session_ids, session_id(session, session_ids))
            /\ calls' = Append(calls, "view")
            /\ returned' = Append(returned,
                   IF ~FalsyStr(image_data)
                   THEN Outcome(TRUE, image_data, MsgSuccess, used_seed)
                   ELSE Outcome(FALSE, None, MsgNoOutput, used_seed))
            /\ pc' = "done"
    /\ UNCHANGED <<submit_resp, clock, start_time, workflow, known_seed, payload, prompt_id,
                   used_seed, history, wait_result, target_image, delete_resp,
                   error_reported, cancel_pc, cancel_calls>>
    /\ UNCHANGED <<parser_vars, classifier_vars, registry_vars, backend_vars, admission_vars>>

\* The job is Running: submitted, and wait_for_completion has not returned.
Running == pc \in {"poll", "sleep", "interrupt"}

\* The caller's own cancel_prompt(prompt_id) while the job is Running: its
\* POST /api/queue.
CallerCancel ==
    /\ cancel_pc = "idle"
    /\ Running
    /\ \E resp \in PlainResponses :
        /\ session' = ensure_session(session)
        /\ session_ids' = Append(session_ids, session_id(session, session_ids))
        /\ cancel_calls' = Append(cancel_calls, "queue_delete")
        /\ cancel_pc' = CASE cancel_prompt_after_delete(resp) = "interrupt" -> "interrupt"
                          [] cancel_prompt_after_delete(resp) = "return_false" ->
                                "returned_false"
                          [] OTHER -> "raised"
    /\ UNCHANGED <<submit_resp, pc, clock, start_time, workflow, known_seed, payload,
                   prompt_id, used_seed, history, wait_result, target_image, calls,
                   delete_resp, returned, error_reported>>
    /\ UNCHANGED <<parser_vars, classifier_vars, registry_vars, backend_vars, admission_vars>>

\* The caller's cancel_prompt: its interrupt(), and return True.
CallerInterrupt ==
    /\ cancel_pc = "interrupt"
    /\ \E resp \in PlainResponses :
        /\ session' = ensure_session(session)
        /\ session_ids' = Append(session_ids, session_id(session, session_ids))
        /\ cancel_calls' = Append(cancel_calls, "interrupt")
        /\ cancel_pc' = "returned_true"
    /\ UNCHANGED <<submit_resp, pc, clock, start_time, workflow, known_seed, payload,
                   prompt_id, used_seed, history, wait_result, target_image, calls,
                   delete_resp, returned, error_reported>>
    /\ UNCHANGED <<parser_vars, classifier_vars, registry_vars, backend_vars, admission_vars>>

\* The steps of the task that runs execute_workflow.
JobStep ==
    \/ QueuePrompt
    \/ PollHistory
    \/ Sleep
    \/ TimeoutCancel
    \/ TimeoutInterrupt
    \/ SelectImage
    \/ GetImage

Next ==
    \/ JobStep
    \/ CallerCancel
    \/ CallerInterrupt

Spec == Init /\ [][Next]_vars

\* The event loop resumes a task whose awaited call has returned, failed or
\* timed out, and whose sleep has elapsed.
FairSpec == Spec /\ WF_vars(JobStep)

\* ------------------------------------------------- the image selection alone

\* The history bodies that hold a record of the job with any outputs map.
AllJobBodies == {<<[id |-> JobId, rec |-> r]>> : r \in HistoryRecords(OutputsMaps)}

\* execute_workflow right after wait_for_completion returned a completed
\* record on the first poll, for every record that completes a job.
ExtractInit ==
    /\ pc = "select_image"
    /\ clock = 0
    /\ start_time = 0
    /\ session = "open"
    /\ session_ids = <<1, 1>>
    /\ workflow \in ExecWorkflows
    /\ known_seed = Some(RandMax)
    /\ \E draws \in EnforceDraws(workflow) :
        payload = Some(enforce_deterministic_workflow(workflow, draws).workflow)
    /\ prompt_id = Some(JobId)
    /\ used_seed = known_seed
    /\ \E body \in AllJobBodies :
        /\ history = Some(body)
        /\ wait_result = check_history(history, JobId)
        /\ ~IsNone(wait_result)
        /\ Get(wait_result).success
    /\ target_image = None
    /\ calls = <<"prompt", "history">>
    /\ submit_resp = Some([kind |-> "http", status |-> 200, prompt_id |-> Some(JobId)])
    /\ delete_resp = None
    /\ returned = <<>>
    /\ error_reported = FALSE
    /\ cancel_pc = "idle"
    /\ cancel_calls = <<>>
    /\ workflows = <<>>
    /\ prepare_args = None
    /\ prepared = None
    /\ workflow_data = <<>>
    /\ analysis = None
    /\ traced = None
    /\ files = <<>>
    /\ loaded_files = <<>>
    /\ observed = None
    /\ i2i = I2IIdle
    /\ backend = BackendIdle
    /\ tasks = <<>>
    /\ active_tasks = 0
    /\ task_semaphore = MaxConcurrent
    /\ commands = <<>>

ExtractNext ==
    \/ SelectImage
    \/ GetImage

ExtractSpec == ExtractInit /\ [][ExtractNext]_vars

\* --------------------------------------- prepare, then submit: the seed path

\* The inputs of a sampler wired to the two prompt nodes.
SamplerInputs(seed_val, control) ==
    <<Entry("seed", seed_val), Entry("steps", IntV(20)),
      Entry("control_after_generate", StrV(control)),
      Entry("positive", LinkV("6", 0)), Entry("negative", LinkV("7", 0))>>

\* The primary sampler of a template: its seed is the sentinel, a concrete
\* number, no number or a link to the node that computes it, or the node
\* has no "inputs" at all.
PrimarySamplers ==
    {Node("3", "KSampler", SamplerInputs(v, c)) :
        v \in {IntV(-1), IntV(RandMax), StrV(""), LinkV("5", 0)},
        c \in {"randomize", "fixed"}}
    \cup {[Node("3", "KSampler", <<>>) EXCEPT !.has_inputs = FALSE]}

\* No second sampler, or one that keeps its seed under "noise_seed".
SecondSamplers ==
    {<<>>} \cup {<<Node("4", "KSamplerAdvanced", <<Entry("noise_seed", IntV(v))>>)>> :
                    v \in {-1, 1}}

\* No noise node, or one: a seed field on a node that is no sampler.
NoiseNodes == {<<>>, <<Node("5", "RandomNoise", <<Entry("noise_seed", IntV(1))>>)>>}

PromptNodes ==
    <<Node("6", "CLIPTextEncode", <<Entry("text", StrV("masterpiece, cat"))>>),
      Node("7", "CLIPTextEncode", <<Entry("text", StrV("ugly, blurry"))>>),
      Node("8", "LoadImage", <<Entry("image", StrV("a cat"))>>)>>

\* Templates wired in less usual ways: the positive text and the image come
\* over links from other nodes; the positive prompt node has no "inputs";
\* both inputs of the sampler are fed by the one prompt node.
OddTemplates ==
    {<<Node("3", "KSampler", SamplerInputs(IntV(RandMax), "fixed")),
       Node("6", "CLIPTextEncode", <<Entry("text", LinkV("9", 0))>>),
       PromptNodes[2],
       Node("8", "LoadImage", <<Entry("image", LinkV("9", 0))>>)>>,
     <<Node("3", "KSampler", SamplerInputs(IntV(RandMax), "fixed")),
       [PromptNodes[1] EXCEPT !.has_inputs = FALSE, !.inputs = <<>>],
       PromptNodes[2], PromptNodes[3]>>,
     <<Node("3", "KSampler",
            SetKey(SamplerInputs(IntV(RandMax), "fixed"), "negative", LinkV("6", 0)))>>
       \o PromptNodes}

\* The template files of the workflows directory.
TemplateGraphs ==
    {noise \o <<sampler>> \o second \o PromptNodes :
        noise \in NoiseNodes, sampler \in PrimarySamplers, second \in SecondSamplers}
    \cup OddTemplates

\* The seeds a caller passes: the sentinel, zero and the random range.
CallerSeeds == {-1, 0} \cup RandomSeeds

PrepareIndexes == {1, 2}

SeedInit ==
    /\ pc = "prepare"
    /\ clock = 0
    /\ start_time = 0
    /\ session = "none"
    /\ session_ids = <<>>
    /\ workflow = <<>>
    /\ known_seed = None
    /\ payload = None
    /\ prompt_id = None
    /\ used_seed = None
    /\ history = None
    /\ wait_result = None
    /\ target_image = None
    /\ calls = <<>>
    /\ submit_resp = None
    /\ delete_resp = None
    /\ returned = <<>>
    /\ error_reported = FALSE
    /\ cancel_pc = "idle"
    /\ cancel_calls = <<>>
    /\ \E g \in TemplateGraphs : workflows = load_all_workflows(<<Some(g)>>)
    /\ prepare_args = None
    /\ prepared = None
    /\ workflow_data = <<>>
    /\ analysis = None
    /\ traced = None
    /\ files = <<>>
    /\ loaded_files = <<>>
    /\ observed = None
    /\ i2i = I2IIdle
    /\ backend = BackendIdle
    /\ tasks = <<>>
    /\ active_tasks = 0
    /\ task_semaphore = MaxConcurrent
    /\ commands = <<>>

\* prepare_workflow, and the caller's hand-over to execute_workflow with
\* known_seed = the prepared seed.  Without a graph (`not workflow_result[0]`)
\* the caller stops.  A caller may prepare again before it submits.
PrepareWorkflow ==
    /\ pc \in {"prepare", "queue_prompt"}
    /\ \E index \in PrepareIndexes, seed \in {None} \cup {Some(n) : n \in CallerSeeds},
          image \in {None, Some("in.png")}, draw \in RandomSeeds :
        LET res == prepare_workflow(workflows, index, "a cat", "ugly, blurry",
                                    seed, image, draw)
        IN  /\ prepare_args' = Some([workflow_index |-> index, seed |-> seed,
                                     input_image_filename |-> image])
            /\ prepared' = Some(res)
            /\ workflows' = IF res.aliased
                            THEN [workflows EXCEPT
                                     ![index].workflow_data = Get(res.workflow)]
                            ELSE workflows
            /\ IF res.raised THEN pc' = "raised" /\ UNCHANGED <<workflow, known_seed>>
               ELSE IF FalsyDict(res.workflow)
               THEN pc' = "done" /\ UNCHANGED <<workflow, known_seed>>
               ELSE /\ workflow' = Get(res.workflow)
                    /\ known_seed' = res.seed
                    /\ pc' = "queue_prompt"
    /\ UNCHANGED <<clock, start_time, session, session_ids, payload, prompt_id, used_seed, history,
                   wait_result, target_image, calls, submit_resp, delete_resp, returned,
                   error_reported, cancel_pc, cancel_calls>>
    /\ UNCHANGED <<classifier_vars, registry_vars, backend_vars, admission_vars>>

\* The caller changes the graph prepare_workflow returned to it, once the
\* graph has been submitted: it writes "steps" into the first node that has
\* inputs.  The write reaches the template when the two share their nodes.
ModifyReturned ==
    /\ pc \in {"poll", "done"}
    /\ ~IsNone(payload)
    /\ ~IsNone(prepared) /\ Some(workflow) = Get(prepared).workflow
    /\ \E i \in 1..Len(workflow) :
        /\ workflow[i].has_inputs
        /\ \A h \in 1..(i - 1) : ~workflow[h].has_inputs
        /\ workflow' = [workflow EXCEPT ![i].inputs = SetKey(@, "steps", IntV(30))]
        /\ workflows' =
              IF Get(prepared).aliased
              THEN [workflows EXCEPT ![Get(prepare_args).workflow_index].workflow_data =
                                         workflow']
              ELSE workflows
    /\ UNCHANGED <<pc, clock, start_time, session, session_ids, known_seed, payload, prompt_id,
                   used_seed, history, wait_result, target_image, calls, submit_resp,
                   delete_resp, returned, error_reported, cancel_pc, cancel_calls,
                   prepare_args, prepared>>
    /\ UNCHANGED <<classifier_vars, registry_vars, backend_vars, admission_vars>>

SeedNext ==
    \/ PrepareWorkflow
    \/ QueuePrompt
    \/ ModifyReturned

SeedSpec == SeedInit /\ [][SeedNext]_vars

\* ------------------------------------------- the seed enforcer on its own

\* An entry of the graph that is no node map (a string, a number, a list).
NotANode ==
    [id |-> "0", is_dict |-> FALSE, class_type |-> "", has_inputs |-> FALSE,
     inputs |-> <<>>, title |-> StrV("")]

\* The nodes the graphs handed to queue_prompt are made of: samplers whose
\* seed is zero, the sentinel, a concrete number or no number; nodes that
\* are no samplers and hold a seed; a seed key in capitals; a control field
\* on any of them; a node without "inputs"; an entry that is no node.
EnforceNodes ==
    {Node("0", "KSampler", <<Entry("seed", IntV(0)),
                             Entry("control_after_generate", StrV("fixed"))>>),
     Node("0", "KSampler", <<Entry("seed", IntV(-1)),
                             Entry("control_after_generate", StrV("randomize"))>>),
     Node("0", "KSamplerAdvanced", <<Entry("noise_seed", IntV(RandMax)),
                                     Entry("control_after_generate", StrV("increment"))>>),
     Node("0", "KSampler", <<Entry("seed", StrV("")), Entry("steps", IntV(20))>>),
     Node("0", "RandomNoise", <<Entry("noise_seed", IntV(1))>>),
     Node("0", "RandomNoise", <<Entry("noise_seed", IntV(-1))>>),
     Node("0", "RandomNoise", <<Entry("noise_seed", IntV(0))>>),
     Node("0", "EmptyLatentImage", <<Entry("Seed", IntV(1)),
                                     Entry("control_after_generate", StrV("decrement"))>>),
     Node("0", "CLIPTextEncode", <<Entry("text", StrV("a cat"))>>),
     [Node("0", "KSampler", <<>>) EXCEPT !.has_inputs = FALSE],
     NotANode}

\* The graphs handed to queue_prompt; the keys of the dict are "1", "2", ...
EnforceGraphs ==
    {[i \in 1..Len(ns) |-> [ns[i] EXCEPT !.id = IntStr[i]]] :
        ns \in UNION {[1..m -> EnforceNodes] : m \in 0..MaxEnforceNodes}}

\* execute_workflow called with one of the graphs and no known seed.
EnforceInit ==
    /\ pc = "queue_prompt"
    /\ clock = 0
    /\ start_time = 0
    /\ session = "none"
    /\ session_ids = <<>>
    /\ workflow \in EnforceGraphs
    /\ known_seed = None
    /\ payload = None
    /\ prompt_id = None
    /\ used_seed = None
    /\ history = None
    /\ wait_result = None
    /\ target_image = None
    /\ calls = <<>>
    /\ submit_resp = None
    /\ delete_resp = None
    /\ returned = <<>>
    /\ error_reported = FALSE
    /\ cancel_pc = "idle"
    /\ cancel_calls = <<>>
    /\ workflows = <<>>
    /\ prepare_args = None
    /\ prepared = None
    /\ workflow_data = <<>>
    /\ analysis = None
    /\ traced = None
    /\ files = <<>>
    /\ loaded_files = <<>>
    /\ observed = None
    /\ i2i = I2IIdle
    /\ backend = BackendIdle
    /\ tasks = <<>>
    /\ active_tasks = 0
    /\ task_semaphore = MaxConcurrent
    /\ commands = <<>>

EnforceNext == QueuePrompt

EnforceSpec == EnforceInit /\ [][EnforceNext]_vars

\* ------------------------------------------ the classifier on its own

\* A prompt-encode node with a title and a text input.
ClipNode(id, title, text) ==
    [Node(id, "CLIPTextEncode", <<Entry("text", text)>>) EXCEPT !.title = title]

\* The titles and texts of the prompt node that feeds the positive input and
\* of the one that feeds the negative input: none that says anything, titles
\* that say the truth, titles that say the opposite, texts that say the
\* truth, texts that say the opposite.
ClipLabels ==
    {[pos_title |-> StrV(""), pos_text |-> StrV("a cat"),
      neg_title |-> StrV(""), neg_text |-> StrV("a cat")],
     [pos_title |-> StrV("Positive Prompt"), pos_text |-> StrV("a cat"),
      neg_title |-> StrV("Negative Prompt"), neg_text |-> StrV("a cat")],
     [pos_title |-> StrV("Negative Prompt"), pos_text |-> StrV("a cat"),
      neg_title |-> StrV("Positive Prompt"), neg_text |-> StrV("a cat")],
     [pos_title |-> StrV(""), pos_text |-> StrV("masterpiece, cat"),
      neg_title |-> StrV(""), neg_text |-> StrV("ugly, blurry")],
     [pos_title |-> StrV(""), pos_text |-> StrV("ugly, blurry"),
      neg_title |-> StrV(""), neg_text |-> StrV("masterpiece, cat")]}

\* A link to a node, with the id written as a string or as a number.
LinkForms(id) == {LinkV(id, 0), ListV(<<IntV(CHOOSE n \in 1..Len(IntStr) : IntStr[n] = id), IntV(0)>>)}

\* The samplers of a graph whose prompts are linked directly: one sampler;
\* a sampler-select node before or after the sampler that holds the links;
\* a base sampler and a refiner that hold the same links.
SamplerSetups(pos_ref, neg_ref) ==
    LET wired == <<Entry("positive", pos_ref), Entry("negative", neg_ref)>>
        select == Node("2", "KSamplerSelect", <<Entry("sampler_name", StrV("euler"))>>)
    IN  {<<Node("3", "KSampler", wired)>>,
         <<select, Node("3", "SamplerCustom", wired)>>,
         <<Node("3", "SamplerCustom", wired), select>>,
         <<Node("3", "KSampler", wired), Node("4", "KSamplerAdvanced", wired)>>}

\* The graphs with two prompt-encode nodes linked directly from a sampler,
\* over the ids of the two nodes, the order of the nodes in the file, the
\* titles and the texts.
LinkedGraphs ==
    UNION {UNION {{samplers \o <<p, n>>, <<p, n>> \o samplers,
                   <<n, p>> \o samplers, <<n>> \o samplers \o <<p>>} :
                     samplers \in SamplerSetups(pos_ref, neg_ref)} :
           <<p, n, pos_ref, neg_ref>> \in
               UNION {{<<ClipNode(ids[1], l.pos_title, l.pos_text),
                         ClipNode(ids[2], l.neg_title, l.neg_text), pr, nr>> :
                           pr \in LinkForms(ids[1]), nr \in LinkForms(ids[2])} :
                      <<ids, l>> \in {<<"6", "7">>, <<"7", "6">>} \X ClipLabels}}

\* The ids of the passthrough nodes of a chain.
RerouteIds == <<"r1", "r2", "r3", "r4", "r5", "r6", "r7", "r8", "r9", "r10", "r11", "r12">>

\* A sampler whose positive input leads through n Reroute nodes to the node
\* "6" of class end_class, and whose negative input is linked to "7".
ChainGraph(n, end_class) ==
    <<Node("3", "KSampler",
           <<Entry("positive", LinkV(IF n = 0 THEN "6" ELSE RerouteIds[1], 0)),
             Entry("negative", LinkV("7", 0))>>)>>
    \o [i \in 1..n |->
           Node(RerouteIds[i], "Reroute",
                <<Entry("", LinkV(IF i = n THEN "6" ELSE RerouteIds[i + 1], 0))>>)]
    \o <<Node("6", end_class, <<Entry("text", StrV("a cat"))>>),
         ClipNode("7", StrV(""), StrV("a cat"))>>

\* The chains of 0..MaxChain passthrough nodes that end in a prompt-encode
\* node or in a node of another class, and a Reroute that feeds itself.
ChainGraphs ==
    {ChainGraph(n, c) : n \in 0..MaxChain, c \in {"CLIPTextEncode", "ConditioningCombine"}}
    \cup {<<Node("3", "KSampler", <<Entry("positive", LinkV("r1", 0)),
                                    Entry("negative", LinkV("7", 0))>>),
            Node("r1", "Reroute", <<Entry("", LinkV("r1", 0))>>),
            ClipNode("6", StrV(""), StrV("a cat")),
            ClipNode("7", StrV(""), StrV("a cat"))>>}

\* Graphs that are not what the backend's export writes: an entry that is
\* no node map, alone and as the source of a link; a prompt text that comes
\* over a link; a title that is a number; links that are no pairs; a node
\* with no class_type and no inputs.
MalformedGraphs ==
    LET sampler(pos_ref) ==
            Node("3", "KSampler", <<Entry("positive", pos_ref), Entry("negative", LinkV("7", 0))>>)
        six == ClipNode("6", StrV(""), StrV("a cat"))
        seven == ClipNode("7", StrV(""), StrV("a cat"))
        bare == [Node("9", "", <<>>) EXCEPT !.has_inputs = FALSE]
    IN  {<<sampler(LinkV("6", 0)), [NotANode EXCEPT !.id = "5"], six, seven>>,
         <<sampler(LinkV("5", 0)), [NotANode EXCEPT !.id = "5"], six, seven>>,
         <<sampler(LinkV("r1", 0)), Node("r1", "Reroute", <<Entry("", LinkV("5", 0))>>),
           [NotANode EXCEPT !.id = "5"], six, seven>>,
         <<ClipNode("6", StrV(""), LinkV("9", 0)), seven, bare>>,
         <<ClipNode("6", IntV(1), StrV("a cat")), seven>>,
         <<sampler(ListV(<<>>)), six, seven>>,
         <<sampler(StrV("6")), six, seven>>,
         <<sampler(LinkV("8", 0)), six, seven>>,
         <<six>>, <<bare>>, <<>>}

\* The titles and the texts a prompt-encode node comes with.
ClipTitles == {StrV(""), StrV("Positive Prompt"), StrV("Negative Prompt")}
ClipTexts == {StrV("a cat"), StrV("masterpiece, cat"), StrV("ugly, blurry")}

\* Graphs on which the steps of the polarity heuristic disagree: a sampler
\* that links no prompt, or only its positive or only its negative input to
\* node "7", and two or three prompt-encode nodes whose titles and texts say
\* anything.
LayeredGraphs ==
    {<<Node("3", "KSampler", links),
       ClipNode("6", t6, x6), ClipNode("7", t7, x7)>> \o third :
        links \in {<<>>, <<Entry("positive", LinkV("7", 0))>>,
                   <<Entry("negative", LinkV("7", 0))>>},
        t6 \in ClipTitles, x6 \in ClipTexts, t7 \in ClipTitles, x7 \in ClipTexts,
        third \in {<<>>, <<ClipNode("8", StrV(""), StrV("a cat"))>>}}

\* Graphs with one prompt-encode node: its title and its text say anything
\* or are no strings, and the sampler links none of its inputs, its positive
\* or its negative input to it.
SingleGraphs ==
    {<<Node("3", "KSampler", links), ClipNode("6", t6, x6)>> :
        links \in {<<>>, <<Entry("positive", LinkV("6", 0))>>,
                   <<Entry("negative", LinkV("6", 0))>>},
        t6 \in ClipTitles \cup {IntV(1)}, x6 \in ClipTexts \cup {LinkV("9", 0)}}

\* Graphs whose sampler takes both conditionings from the one prompt-encode
\* node "6", directly or with the negative input over a Reroute, next to a
\* second prompt-encode node that feeds nothing.
SharedSourceGraphs ==
    {<<Node("3", "KSampler", <<Entry("positive", LinkV("6", 0)), Entry("negative", neg_ref)>>)>>
       \o reroute \o <<ClipNode("6", t6, StrV("a cat")), ClipNode("7", StrV(""), StrV("a cat"))>> :
        <<neg_ref, reroute>> \in
            {<<LinkV("6", 0), <<>>>>,
             <<LinkV("r1", 0), <<Node("r1", "Reroute", <<Entry("", LinkV("6", 0))>>)>>>>},
        t6 \in ClipTitles}

\* The class types of the nodes that take a single-valued role or are
\* samplers, two of each taxonomy but the latent one.
RoleClasses ==
    {"EmptyLatentImage", "LoadImage", "LoadImageMask", "SaveImage", "PreviewImage",
     "KSampler", "KSamplerSelect"}

\* The graphs of up to MaxRoleNodes such nodes, in every order, with the ids
\* "1", "2", ... in file order.
RoleGraphs ==
    {[i \in 1..Len(classes) |-> Node(IntStr[i], classes[i], <<>>)] :
        classes \in UNION {[1..n -> RoleClasses] : n \in 1..MaxRoleNodes}}

\* The graphs handed to the classifier.
ClassifyGraphs ==
    LinkedGraphs \cup ChainGraphs \cup MalformedGraphs \cup LayeredGraphs \cup SingleGraphs
    \cup SharedSourceGraphs \cup RoleGraphs

ClassifyInit ==
    /\ pc = "analyze"
    /\ clock = 0
    /\ start_time = 0
    /\ session = "none"
    /\ session_ids = <<>>
    /\ workflow = <<>>
    /\ known_seed = None
    /\ payload = None
    /\ prompt_id = None
    /\ used_seed = None
    /\ history = None
    /\ wait_result = None
    /\ target_image = None
    /\ calls = <<>>
    /\ submit_resp = None
    /\ delete_resp = None
    /\ returned = <<>>
    /\ error_reported = FALSE
    /\ cancel_pc = "idle"
    /\ cancel_calls = <<>>
    /\ workflows = <<>>
    /\ prepare_args = None
    /\ prepared = None
    /\ workflow_data \in ClassifyGraphs
    /\ analysis = None
    /\ traced = None
    /\ files = <<>>
    /\ loaded_files = <<>>
    /\ observed = None
    /\ i2i = I2IIdle
    /\ backend = BackendIdle
    /\ tasks = <<>>
    /\ active_tasks = 0
    /\ task_semaphore = MaxConcurrent
    /\ commands = <<>>

\* _analyze_workflow_nodes(workflow_data): the mapping, or the exception.
AnalyzeWorkflowNodes ==
    /\ pc = "analyze"
    /\ analysis' = Some(analyze_workflow_nodes(workflow_data))
    /\ pc' = IF analysis'[1].raised THEN "raised" ELSE "analyzed"
    /\ UNCHANGED <<clock, start_time, session, session_ids, workflow, known_seed, payload, prompt_id,
                   used_seed, history, wait_result, target_image, calls, submit_resp,
                   delete_resp, returned, error_reported, cancel_pc, cancel_calls,
                   workflow_data, traced>>
    /\ UNCHANGED <<parser_vars, registry_vars, backend_vars, admission_vars>>

\* _trace_link_source(link_ref, workflow_data, CLIP_TEXT_ENCODE_TYPES) with
\* the default max_depth, on a list some input of some node holds.
TraceLinkSource ==
    /\ \E i \in 1..Len(workflow_data) :
        /\ workflow_data[i].has_inputs
        /\ \E j \in 1..Len(workflow_data[i].inputs) :
            LET link_ref == workflow_data[i].inputs[j].val
                res == trace_link_source(link_ref, workflow_data,
                                         CLIP_TEXT_ENCODE_TYPES, DefaultMaxDepth)
            IN  /\ link_ref.k = "list"
                /\ traced' = Some([link_ref |-> link_ref, raised |-> res.raised,
                                   value |-> res.value])
    /\ UNCHANGED <<pc, clock, start_time, session, session_ids, workflow, known_seed, payload,
                   prompt_id, used_seed, history, wait_result, target_image, calls,
                   submit_resp, delete_resp, returned, error_reported, cancel_pc,
                   cancel_calls, workflow_data, analysis>>
    /\ UNCHANGED <<parser_vars, registry_vars, backend_vars, admission_vars>>

ClassifyNext == AnalyzeWorkflowNodes \/ TraceLinkSource

ClassifySpec == ClassifyInit /\ [][ClassifyNext]_vars

\* ------------------------------------ the registry, its directory, its readers

\* A template for text-to-image, and one with a load-image node.
TextTemplate ==
    <<Node("3", "KSampler", SamplerInputs(IntV(RandMax), "fixed")),
      PromptNodes[1], PromptNodes[2]>>
ImageTemplate == <<Node("3", "KSampler", SamplerInputs(IntV(RandMax), "fixed"))>> \o PromptNodes

\* The graphs of the directory's files: a template, and a graph whose
\* classification raises (a numeric title).
RegistryGraphs ==
    {ImageTemplate,
     <<ClipNode("6", IntV(1), StrV("a cat")), ClipNode("7", StrV(""), StrV("a cat"))>>}

\* What a *.json file holds: text json.load rejects, or a graph.
FileContents == {None} \cup {Some(g) : g \in RegistryGraphs}

\* What the directory holds, in the order of the file names.
Directories == UNION {[1..n -> FileContents] : n \in 0..MaxFiles}

\* The indexes callers ask for.
RegistryIndexes == 1..(MaxFiles + 1)

\* What a read returned: the entry of get_workflow, the listing of
\* list_workflows, the count of get_workflow_count or the result of
\* prepare_workflow; the fields of the other reads stay empty.
ReadResult(info, listing, count, result) ==
    [info |-> info, listing |-> listing, count |-> count, prepared |-> result]

\* WorkflowParser(workflows_dir): the constructor loads the directory.
RegistryInit ==
    /\ pc = "idle"
    /\ clock = 0
    /\ start_time = 0
    /\ session = "none"
    /\ session_ids = <<>>
    /\ workflow = <<>>
    /\ known_seed = None
    /\ payload = None
    /\ prompt_id = None
    /\ used_seed = None
    /\ history = None
    /\ wait_result = None
    /\ target_image = None
    /\ calls = <<>>
    /\ submit_resp = None
    /\ delete_resp = None
    /\ returned = <<>>
    /\ error_reported = FALSE
    /\ cancel_pc = "idle"
    /\ cancel_calls = <<>>
    /\ files \in Directories
    /\ workflows = load_all_workflows(files)
    /\ prepare_args = None
    /\ prepared = None
    /\ workflow_data = <<>>
    /\ analysis = None
    /\ traced = None
    /\ loaded_files = files
    /\ observed = None
    /\ i2i = I2IIdle
    /\ backend = BackendIdle
    /\ tasks = <<>>
    /\ active_tasks = 0
    /\ task_semaphore = MaxConcurrent
    /\ commands = <<>>

\* What the steps of the registry leave alone.
orchestrator_vars ==
    <<pc, clock, start_time, session, session_ids, workflow, known_seed, payload, prompt_id,
      used_seed, history, wait_result, target_image, calls, submit_resp, delete_resp,
      returned, error_reported, cancel_pc, cancel_calls, backend, tasks, admission_vars>>

\* The user adds a file, removes one or rewrites one.
EditDirectory ==
    /\ \/ \E c \in FileContents, at \in 0..Len(files) :
            /\ Len(files) < MaxFiles
            /\ files' = SubSeq(files, 1, at) \o <<c>> \o SubSeq(files, at + 1, Len(files))
       \/ \E at \in 1..Len(files) :
            files' = SubSeq(files, 1, at - 1) \o SubSeq(files, at + 1, Len(files))
       \/ \E c \in FileContents, at \in 1..Len(files) :
            /\ c # files[at]
            /\ files' = [files EXCEPT ![at] = c]
    /\ UNCHANGED <<orchestrator_vars, parser_vars, classifier_vars, loaded_files,
                   observed, i2i>>

\* A reload that is suspended after the clear or between two files, so that
\* the steps of other tasks find the registry as far as it has got.
ReloadWorkflowsSuspended ==
    /\ \E n \in 0..Len(files) :
        workflows' = load_all_workflows([i \in 1..Len(files) |->
                                            IF i <= n THEN files[i] ELSE None])
    /\ loaded_files' = files
    /\ UNCHANGED <<orchestrator_vars, prepare_args, prepared, classifier_vars, files,
                   observed, i2i>>

\* reload_workflows: clear(), then _load_all_workflows(); a synchronous
\* method with no await, so no other task of the event loop runs between.
ReloadWorkflows ==
    /\ workflows' = load_all_workflows(files)
    /\ loaded_files' = files
    /\ UNCHANGED <<orchestrator_vars, prepare_args, prepared, classifier_vars, files,
                   observed, i2i>>

\* A handler calls get_workflow(index).
GetWorkflow ==
    /\ \E index \in RegistryIndexes :
        observed' = Some([op |-> "get_workflow", index |-> index,
                          result |-> ReadResult(get_workflow(workflows, index),
                                                <<>>, 0, None)])
    /\ UNCHANGED <<orchestrator_vars, parser_vars, classifier_vars, files, loaded_files, i2i>>

\* A handler calls list_workflows().
ListWorkflows ==
    /\ observed' = Some([op |-> "list_workflows", index |-> 0,
                         result |-> ReadResult(None, list_workflows(workflows), 0, None)])
    /\ UNCHANGED <<orchestrator_vars, parser_vars, classifier_vars, files, loaded_files, i2i>>

\* A handler calls get_workflow_count().
GetWorkflowCount ==
    /\ observed' = Some([op |-> "get_workflow_count", index |-> 0,
                         result |-> ReadResult(None, <<>>, get_workflow_count(workflows),
                                               None)])
    /\ UNCHANGED <<orchestrator_vars, parser_vars, classifier_vars, files, loaded_files, i2i>>

\* A handler calls prepare_workflow(index, ...).
PrepareRead ==
    /\ \E index \in RegistryIndexes, draw \in RandomSeeds :
        observed' = Some([op |-> "prepare_workflow", index |-> index,
                          result |-> ReadResult(None, <<>>, 0,
                                        Some(prepare_workflow(workflows, index, "a cat",
                                                 "ugly, blurry", None, None, draw)))])
    /\ UNCHANGED <<orchestrator_vars, parser_vars, classifier_vars, files, loaded_files, i2i>>

RegistryNext ==
    \/ EditDirectory
    \/ ReloadWorkflows
    \/ GetWorkflow
    \/ ListWorkflows
    \/ GetWorkflowCount
    \/ PrepareRead

RegistrySpec == RegistryInit /\ [][RegistryNext]_vars

\* ------------------------------------ the img2img command and the registry

\* The name upload_image returned for the reference image.
UploadedName == "i2i.png"

\* The directory holds templates only, with and without a load-image node.
TemplateDirectories ==
    UNION {[1..n -> {Some(TextTemplate), Some(ImageTemplate)}] : n \in 1..MaxFiles}

\* The plugin after its constructor: the registry is loaded, no command runs.
I2IInit ==
    /\ pc = "idle"
    /\ clock = 0
    /\ start_time = 0
    /\ session = "none"
    /\ session_ids = <<>>
    /\ workflow = <<>>
    /\ known_seed = None
    /\ payload = None
    /\ prompt_id = None
    /\ used_seed = None
    /\ history = None
    /\ wait_result = None
    /\ target_image = None
    /\ calls = <<>>
    /\ submit_resp = None
    /\ delete_resp = None
    /\ returned = <<>>
    /\ error_reported = FALSE
    /\ cancel_pc = "idle"
    /\ cancel_calls = <<>>
    /\ files \in TemplateDirectories
    /\ workflows = load_all_workflows(files)
    /\ prepare_args = None
    /\ prepared = None
    /\ workflow_data = <<>>
    /\ analysis = None
    /\ traced = None
    /\ loaded_files = files
    /\ observed = None
    /\ i2i = I2IIdle
    /\ backend = BackendIdle
    /\ tasks = <<>>
    /\ active_tasks = 0
    /\ task_semaphore = MaxConcurrent
    /\ commands = <<>>

\* What the steps of the img2img command leave alone.
i2i_unchanged ==
    <<orchestrator_vars, parser_vars, classifier_vars, files, loaded_files, observed>>

\* img2img up to `uploaded_name = await self.comfyui.upload_image(...)`: the
\* upload fails and the command returns, or it gives the stored name.
I2IUpload ==
    /\ i2i.pc = "idle"
    /\ \/ i2i' = [i2i EXCEPT !.pc = "done"]
       \/ i2i' = [i2i EXCEPT !.pc = "check", !.uploaded_name = UploadedName]
    /\ UNCHANGED i2i_unchanged

\* img2img from its prepare_workflow(workflow_idx, ..., uploaded_name) call
\* on: the return when it gives no graph, else the call of execute_workflow
\* on the prepared graph.  mapping records the role mapping prepare_workflow
\* read.
i2i_prepare(cmd, registry, draw) ==
    LET res == prepare_workflow(registry, cmd.workflow_idx, "a cat", "ugly, blurry",
                                None, Some(cmd.uploaded_name), draw)
    IN  IF res.raised THEN [cmd EXCEPT !.pc = "raised"]
        ELSE IF FalsyDict(res.workflow) THEN [cmd EXCEPT !.pc = "done"]
        ELSE [cmd EXCEPT !.pc = "submitted",
                         !.mapping = Some(registry[cmd.workflow_idx].node_mapping),
                         !.workflow = res.workflow]

\* img2img from the user's workflow setting to the load-image test: the
\* command returns when the index names no template or when the template's
\* mapping has no load_image_node.  Else it builds the prompt: with
\* enable_generate_prompt or enable_show_positive_prompt set it is suspended
\* in `await self._generate_prompt` or in a yield, without them it goes
\* straight on to prepare_workflow.
I2ICheck ==
    /\ i2i.pc = "check"
    /\ \E workflow_idx \in RegistryIndexes, suspends \in BOOLEAN, draw \in RandomSeeds :
        LET workflow_info == get_workflow(workflows, workflow_idx)
            cmd == [i2i EXCEPT !.workflow_idx = workflow_idx]
        IN  i2i' = IF IsNone(workflow_info) THEN [cmd EXCEPT !.pc = "done"]
                   ELSE IF FalsyStr(Get(workflow_info).node_mapping.load_image_node)
                   THEN [cmd EXCEPT !.pc = "done"]
                   ELSE IF suspends THEN [cmd EXCEPT !.pc = "suspended"]
                   ELSE i2i_prepare(cmd, workflows, draw)
    /\ UNCHANGED i2i_unchanged

\* img2img resumed after its suspension.
I2IPrepare ==
    /\ i2i.pc = "suspended"
    /\ \E draw \in RandomSeeds : i2i' = i2i_prepare(i2i, workflows, draw)
    /\ UNCHANGED i2i_unchanged

\* The user replaces a template file by another template.
RewriteTemplate ==
    /\ \E at \in 1..Len(files), g \in {TextTemplate, ImageTemplate} :
        /\ files[at] # Some(g)
        /\ files' = [files EXCEPT ![at] = Some(g)]
    /\ UNCHANGED <<orchestrator_vars, parser_vars, classifier_vars, loaded_files,
                   observed, i2i>>

I2INext ==
    \/ I2IUpload
    \/ I2ICheck
    \/ I2IPrepare
    \/ RewriteTemplate
    \/ ReloadWorkflows

I2ISpec == I2IInit /\ [][I2INext]_vars

\* ------------------------------------------- several jobs on one backend

\* The backend's POST /api/queue {"delete": [id]}: a job still waiting in
\* the queue leaves it; a job that executes or has finished is untouched.
backend_delete(b, id) ==
    IF b.state[id] = "queued"
    THEN [b EXCEPT !.queue = SelectSeq(@, LAMBDA q : q # id), !.state[id] = "deleted"]
    ELSE b

\* The backend's POST /interrupt, sent by the cancel_prompt of job `by`: the
\* request names no job, the backend stops whatever it executes.
backend_interrupt(b, by) ==
    IF IsNone(b.executing) THEN b
    ELSE [b EXCEPT !.executing = None,
                   !.state[Get(b.executing)] = "interrupted",
                   !.stopped_by[Get(b.executing)] = by]

\* An execute_workflow task before its queue_prompt.
TaskIdle == [pc |-> "queue_prompt", start_time |-> 0, wake |-> 0, status_msg |-> ""]

\* A task that has returned with a status message.
TaskDone(task, status_msg) == [task EXCEPT !.pc = "done", !.status_msg = status_msg]

\* Two commands have each called execute_workflow on the one client, under
\* the task semaphore, against an idle backend.
BackendInit ==
    /\ pc = "queue_prompt"
    /\ clock = 0
    /\ start_time = 0
    /\ session = "none"
    /\ session_ids = <<>>
    /\ workflow \in ExecWorkflows
    /\ known_seed = Some(RandMax)
    /\ payload = None
    /\ prompt_id = None
    /\ used_seed = None
    /\ history = None
    /\ wait_result = None
    /\ target_image = None
    /\ calls = <<>>
    /\ submit_resp = None
    /\ delete_resp = None
    /\ returned = <<>>
    /\ error_reported = FALSE
    /\ cancel_pc = "idle"
    /\ cancel_calls = <<>>
    /\ workflows = <<>>
    /\ prepare_args = None
    /\ prepared = None
    /\ workflow_data = <<>>
    /\ analysis = None
    /\ traced = None
    /\ files = <<>>
    /\ loaded_files = <<>>
    /\ observed = None
    /\ i2i = I2IIdle
    /\ backend = BackendIdle
    /\ tasks = [j \in BackendJobs |-> TaskIdle]
    /\ active_tasks = 0
    /\ task_semaphore = MaxConcurrent
    /\ commands = <<>>

\* What the steps of the jobs that share a backend leave alone.
single_job_vars ==
    <<pc, start_time, session, session_ids, workflow, known_seed, payload, prompt_id,
      used_seed, history, wait_result, target_image, calls, submit_resp, delete_resp,
      returned, error_reported, cancel_pc, cancel_calls, parser_vars, classifier_vars,
      registry_vars, admission_vars>>

\* execute_workflow's queue_prompt for job j: the backend queues the job, or
\* the submission fails and the task returns.
SubmitJob(j) ==
    /\ tasks[j].pc = "queue_prompt"
    /\ \/ /\ backend' = [backend EXCEPT !.queue = Append(@, j), !.state[j] = "queued"]
          /\ tasks' = [tasks EXCEPT ![j] = [@ EXCEPT !.pc = "poll", !.start_time = clock]]
       \/ /\ tasks' = [tasks EXCEPT ![j] = TaskDone(@, MsgSubmitFailed)]
          /\ UNCHANGED backend
    /\ UNCHANGED <<clock, single_job_vars>>

\* The backend takes the head of its queue into execution.
BackendStart ==
    /\ IsNone(backend.executing)
    /\ backend.queue # <<>>
    /\ backend' = [backend EXCEPT !.executing = Some(Head(backend.queue)),
                                  !.queue = Tail(@),
                                  !.state[Head(backend.queue)] = "executing"]
    /\ UNCHANGED <<clock, tasks, single_job_vars>>

\* The job in execution completes.
BackendFinish ==
    /\ ~IsNone(backend.executing)
    /\ backend' = [backend EXCEPT !.executing = None,
                                  !.state[Get(backend.executing)] = "success"]
    /\ UNCHANGED <<clock, tasks, single_job_vars>>

\* A second passes on the event loop's clock.
Tick ==
    /\ clock < MaxClock
    /\ clock' = clock + 1
    /\ UNCHANGED <<backend, tasks, single_job_vars>>

\* One pass of job j's poll loop within the timeout: the completed return on
\* a finished job, the error return on a stopped job whose record holds the
\* error status, else on to the sleep.
PollJob(j) ==
    /\ tasks[j].pc = "poll"
    /\ ~timed_out(clock, tasks[j].start_time)
    /\ \/ /\ backend.state[j] = "success"
          /\ tasks' = [tasks EXCEPT ![j] = TaskDone(@, MsgCompleted)]
       \/ /\ backend.state[j] = "interrupted"
          /\ tasks' = [tasks EXCEPT ![j] = TaskDone(@, MsgExecError)]
       \/ tasks' = [tasks EXCEPT ![j] = [@ EXCEPT !.pc = "sleep",
                                                   !.wake = clock + PollInterval]]
    /\ UNCHANGED <<clock, backend, single_job_vars>>

\* Job j's asyncio.sleep(poll_interval) is over.
WakeJob(j) ==
    /\ tasks[j].pc = "sleep"
    /\ clock >= tasks[j].wake
    /\ tasks' = [tasks EXCEPT ![j] = [@ EXCEPT !.pc = "poll"]]
    /\ UNCHANGED <<clock, backend, single_job_vars>>

\* Job j's timeout branch: cancel_prompt's POST /api/queue for its own id.
TimeoutCancelJob(j) ==
    /\ tasks[j].pc = "poll"
    /\ timed_out(clock, tasks[j].start_time)
    /\ \E resp \in PlainResponses :
        /\ backend' = IF resp.kind = "http" /\ resp.status = 200
                      THEN backend_delete(backend, j) ELSE backend
        /\ tasks' = [tasks EXCEPT ![j] =
                        IF cancel_prompt_after_delete(resp) = "interrupt"
                        THEN [@ EXCEPT !.pc = "interrupt"]
                        ELSE TaskDone(@, MsgTimeout)]
    /\ UNCHANGED <<clock, single_job_vars>>

\* cancel_prompt's interrupt() for job j, and the timeout return.
TimeoutInterruptJob(j) ==
    /\ tasks[j].pc = "interrupt"
    /\ \E resp \in PlainResponses :
        backend' = IF resp.kind = "http" /\ resp.status = 200
                   THEN backend_interrupt(backend, j) ELSE backend
    /\ tasks' = [tasks EXCEPT ![j] = TaskDone(@, MsgTimeout)]
    /\ UNCHANGED <<clock, single_job_vars>>

BackendNext ==
    \/ \E j \in BackendJobs : SubmitJob(j)
    \/ BackendStart
    \/ BackendFinish
    \/ Tick
    \/ \E j \in BackendJobs : PollJob(j)
    \/ \E j \in BackendJobs : WakeJob(j)
    \/ \E j \in BackendJobs : TimeoutCancelJob(j)
    \/ \E j \in BackendJobs : TimeoutInterruptJob(j)

BackendSpec == BackendInit /\ [][BackendNext]_vars

\* --------------------------------------------- the admission of commands

\* The gen and i2i commands users send while others are still running.
CommandIds == 1..MaxCommands

CommandKinds == {"gen", "i2i"}

\* A command nobody has sent yet.
CommandIdle == [pc |-> "idle", kind |-> "gen", waited |-> FALSE, outcome |-> ""]

\* A command that is over, and how it ended.
CommandDone(command, outcome) == [command EXCEPT !.pc = "done", !.outcome = outcome]

AdmissionInit ==
    /\ pc = "queue_prompt"
    /\ clock = 0
    /\ start_time = 0
    /\ session = "none"
    /\ session_ids = <<>>
    /\ workflow \in ExecWorkflows
    /\ known_seed = Some(RandMax)
    /\ payload = None
    /\ prompt_id = None
    /\ used_seed = None
    /\ history = None
    /\ wait_result = None
    /\ target_image = None
    /\ calls = <<>>
    /\ submit_resp = None
    /\ delete_resp = None
    /\ returned = <<>>
    /\ error_reported = FALSE
    /\ cancel_pc = "idle"
    /\ cancel_calls = <<>>
    /\ workflows = <<>>
    /\ prepare_args = None
    /\ prepared = None
    /\ workflow_data = <<>>
    /\ analysis = None
    /\ traced = None
    /\ files = <<>>
    /\ loaded_files = <<>>
    /\ observed = None
    /\ i2i = I2IIdle
    /\ backend = BackendIdle
    /\ tasks = <<>>
    /\ active_tasks = 0
    /\ task_semaphore = MaxConcurrent
    /\ commands = [c \in CommandIds |-> CommandIdle]

\* What the admission of a command leaves alone.
admitted_vars ==
    <<pc, clock, start_time, session, session_ids, workflow, known_seed, payload, prompt_id,
      used_seed, history, wait_result, target_image, calls, submit_resp, delete_resp,
      returned, error_reported, cancel_pc, cancel_calls, parser_vars, classifier_vars,
      registry_vars, backend_vars>>

\* The commands waiting in the acquire of the semaphore.
Waiting == {c \in DOMAIN commands : commands[c].pc = "blocked"}

\* The commands whose generator stands between the increment and the
\* finally clause: in the try body or at the yield of an except handler.
InSection == {c \in DOMAIN commands : commands[c].pc \in {"inside", "except"}}

\* `async with self.task_semaphore:` got the semaphore, and the increment
\* follows with no suspension in between.
enter_section(c, waited) ==
    /\ task_semaphore > 0
    /\ task_semaphore' = task_semaphore - 1
    /\ active_tasks' = active_tasks + 1
    /\ commands' = [commands EXCEPT ![c] = [@ EXCEPT !.pc = "inside", !.waited = waited]]

\* A user sends a command.  Without a prompt it answers with the usage text
\* and returns before the semaphore.  Otherwise it takes the semaphore at
\* once when it is free, and waits when it is not (or, with a semaphore
\* that serves its waiters in order, when others wait already).
CallCommand(c) ==
    /\ commands[c].pc = "idle"
    /\ \E kind \in CommandKinds :
        LET called == [commands EXCEPT ![c] = [@ EXCEPT !.kind = kind]]
        IN  \/ /\ commands' = [called EXCEPT ![c] = CommandDone(@, "usage")]
               /\ UNCHANGED <<active_tasks, task_semaphore>>
            \/ /\ task_semaphore > 0
               /\ task_semaphore' = task_semaphore - 1
               /\ active_tasks' = active_tasks + 1
               /\ commands' = [called EXCEPT ![c] = [@ EXCEPT !.pc = "inside"]]
            \/ /\ task_semaphore = 0 \/ Waiting # {}
               /\ commands' = [called EXCEPT ![c] = [@ EXCEPT !.pc = "blocked"]]
               /\ UNCHANGED <<active_tasks, task_semaphore>>
    /\ UNCHANGED admitted_vars

\* A waiting command gets the semaphore another one released.
WakeCommand(c) ==
    /\ commands[c].pc = "blocked"
    /\ enter_section(c, TRUE)
    /\ UNCHANGED admitted_vars

\* A waiting command is cancelled: the acquire raises, the body of the
\* `async with` is never entered.
CancelWaiting(c) ==
    /\ commands[c].pc = "blocked"
    /\ commands' = [commands EXCEPT ![c] = CommandDone([@ EXCEPT !.waited = TRUE], "cancelled")]
    /\ UNCHANGED <<active_tasks, task_semaphore, admitted_vars>>

\* Something in the try body raises a TimeoutError or another Exception:
\* the handler yields its message and stands at that yield.
RaiseInside(c) ==
    /\ commands[c].pc = "inside"
    /\ commands' = [commands EXCEPT ![c] = [@ EXCEPT !.pc = "except"]]
    /\ UNCHANGED <<active_tasks, task_semaphore, admitted_vars>>

\* The counter after a command that leaves the try statement as it does
\* if the decrement stood at the end of the try body and not in a finally.
leave_section_on_return_only(n, outcome) ==
    IF outcome \in {"raised", "cancelled"} THEN n ELSE n - 1

\* `finally: self.active_tasks -= 1`: the counter after a command left.
leave_section(n, outcome) == n - 1

\* How a command can leave from where it stands: from the try body by an
\* early return, by running to its end or by a cancellation at one of its
\* awaits and yields; from the except handler by running to its end or by a
\* cancellation at its yield.
Outcomes(command) ==
    IF command.pc = "inside" THEN {"returned_early", "succeeded", "cancelled"}
    ELSE IF command.pc = "except" THEN {"raised", "cancelled"}
    ELSE {}

\* A command leaves the guarded section: the finally clause, then the
\* release of the semaphore, with no suspension in between.
LeaveCommand(c) ==
    /\ \E outcome \in Outcomes(commands[c]) :
        /\ active_tasks' = leave_section(active_tasks, outcome)
        /\ task_semaphore' = task_semaphore + 1
        /\ commands' = [commands EXCEPT ![c] = CommandDone(@, outcome)]
    /\ UNCHANGED admitted_vars

AdmissionNext ==
    \E c \in CommandIds :
        \/ CallCommand(c)
        \/ WakeCommand(c)
        \/ CancelWaiting(c)
        \/ RaiseInside(c)
        \/ LeaveCommand(c)

AdmissionSpec == AdmissionInit /\ [][AdmissionNext]_vars

\* ------------------------------------------------------------ the claims

Last(seq) == seq[Len(seq)]
Occurs(call, log) == \E i \in 1..Len(log) : log[i] = call
Count(call, log) == Cardinality({i \in 1..Len(log) : log[i] = call})

\* The reasons execute_workflow gives.
Reasons == {MsgSubmitFailed, MsgTimeout, MsgExecError, MsgNoOutput, MsgSuccess}

\* C1: every call of execute_workflow eventually returns, and returns exactly
\* one outcome: a success, or a failure with one of its reasons.  Checked
\* under FairSpec, where every awaited call of the task ends.
C1_ReturnsOneOutcome ==
    /\ <>(pc = "done")
    /\ [](Len(returned) <= 1)
    /\ [](pc = "done" <=> Len(returned) = 1)
    /\ [](\A i \in 1..Len(returned) :
            /\ returned[i].status_msg \in Reasons
            /\ returned[i].success <=> returned[i].status_msg = MsgSuccess)

\* C1's case: the call has returned after the backend left it polling to
\* the timeout.
C1_Witness ==
    /\ pc = "done"
    /\ Len(returned) = 1
    /\ Count("history", calls) > TimeoutSeconds
    /\ returned[1].status_msg = MsgTimeout

\* C2, as claimed: once a poll has returned a record of the job whose status
\* signals an error, the job has resolved to the execution error.
C2_ErrorStatusResolvesError ==
    error_reported =>
        /\ pc = "done"
        /\ Len(returned) = 1
        /\ returned[1].status_msg = MsgExecError

\* C3, as claimed: a job that resolved as timed out has issued the delete
\* call and then the interrupt call.
C3_TimeoutDeletesThenInterrupts ==
    (pc = "done" /\ returned[1].status_msg = MsgTimeout) =>
        /\ Len(calls) >= 2
        /\ calls[Len(calls) - 1] = "queue_delete"
        /\ calls[Len(calls)] = "interrupt"

\* C4: a job whose poll loop found the timeout exceeded resolves as timed
\* out, whatever the delete and the interrupt call answered; no exception
\* leaves execute_workflow.
C4_TimeoutResolvesTimedOut ==
    /\ pc # "raised"
    /\ (pc = "interrupt" => Last(calls) = "queue_delete")
    /\ (pc = "done" /\ Occurs("queue_delete", calls)) =>
            returned = <<Outcome(FALSE, None, MsgTimeout, used_seed)>>
    /\ (pc = "poll" /\ timed_out(clock, start_time)) => ~ENABLED PollHistory

\* C4's case: the delete call raised and the job is resolved as timed out.
C4_Witness ==
    /\ pc = "done"
    /\ delete_resp = Some([kind |-> "exception", status |-> 0])
    /\ returned[1].status_msg = MsgTimeout

\* The status the spec names for a cancelled job; the code has no such reason.
MsgCancelled == "cancelled"

\* C5, as claimed: once the caller's cancel_prompt for a Running job has
\* returned, the step that resolves the job's poll loop resolves it as
\* cancelled.
C5_CallerCancelResolvesCancelled ==
    [][(cancel_pc = "returned_true" /\ Running /\ pc' = "done") =>
            Last(returned').status_msg = MsgCancelled]_vars

\* The last poll returned a record of the job with outputs and no error status.
CompletedSeen ==
    /\ ~IsNone(history)
    /\ \E i \in 1..Len(Get(history)) :
        /\ Get(history)[i].id = Get(prompt_id)
        /\ Get(history)[i].rec.has_outputs
        /\ ~(/\ Get(history)[i].rec.status.has_status
             /\ Get(history)[i].rec.status.status_str = "error")

CompletedRecord ==
    Get(history)[CHOOSE i \in 1..Len(Get(history)) :
                    Get(history)[i].id = Get(prompt_id)].rec

\* C6: the first record of the job with outputs and no error status ends the
\* wait as completed, carrying that record, and execute_workflow then makes
\* no history, delete or interrupt call: at most the image fetch.
C6_CompletedRecordEndsPolling ==
    /\ [](CompletedSeen =>
            /\ pc \in {"select_image", "get_image", "done"}
            /\ wait_result = Some([success |-> TRUE, result |-> Some(CompletedRecord),
                                   status_msg |-> MsgCompleted]))
    /\ [][CompletedSeen => (calls' = calls \/ calls' = Append(calls, "view"))]_vars

\* C6's case: the third poll returned the completed record, and the call
\* has returned.
C6_Witness ==
    /\ CompletedSeen
    /\ pc = "done"
    /\ Count("history", calls) = 3
    /\ ~Occurs("queue_delete", calls)

\* The submission failed: a network error, a status other than 200, or a
\* 200 body without a job id.
SubmitFailed ==
    /\ ~IsNone(submit_resp)
    /\ \/ Get(submit_resp).kind = "exception"
       \/ Get(submit_resp).status # 200
       \/ IsNone(Get(submit_resp).prompt_id)

\* C7: a failed submission returns submit-failed after the one submit
\* request and nothing else.
C7_SubmitFailureReturnsAtOnce ==
    SubmitFailed =>
        /\ pc = "done"
        /\ calls = <<"prompt">>
        /\ returned = <<Outcome(FALSE, None, MsgSubmitFailed, None)>>
        /\ cancel_calls = <<>>

\* C7's case: the backend answered the submission with a status other than 200.
C7_Witness ==
    /\ SubmitFailed
    /\ Get(submit_resp).kind = "http"
    /\ Get(submit_resp).status = 500
    /\ pc = "done"

\* C8, as claimed: when an image was selected and its fetch failed, the
\* reason differs from no-output-found and from the execution error.
C8_FetchFailureIsDistinct ==
    (pc = "done" /\ ~IsNone(target_image) /\ ~returned[1].success) =>
        returned[1].status_msg \notin {MsgNoOutput, MsgExecError}

\* The image descriptors of an outputs map, node by node, each list in order.
RECURSIVE AllImages(_, _)
AllImages(outputs, i) ==
    IF i > Len(outputs) THEN <<>>
    ELSE (IF outputs[i].has_images THEN outputs[i].images ELSE <<>>)
         \o AllImages(outputs, i + 1)

\* The folder type of a descriptor: its "type", "output" when it has none.
FolderType(image_info) == IF image_info.has_type THEN image_info.type ELSE "output"

\* The image the claim selects: the first of folder type "output", else the
\* first image, else none.
ClaimedImage(outputs) ==
    LET imgs == AllImages(outputs, 1)
        outs == {i \in 1..Len(imgs) : FolderType(imgs[i]) = "output"}
        pick == IF outs # {} THEN CHOOSE i \in outs : \A j \in outs : i <= j ELSE 1
    IN  IF Len(imgs) = 0 THEN None
        ELSE Some([filename |-> imgs[pick].filename, subfolder |-> "",
                   folder_type |-> FolderType(imgs[pick])])

\* C9: on a completed job the selected image is the first image of folder
\* type "output" in node order then list order, else the first image; no
\* image at all gives the no-output failure without a fetch.
C9_OutputImagePreferred ==
    pc \in {"get_image", "done"} =>
        /\ target_image = ClaimedImage(Get(Get(wait_result).result).outputs)
        /\ IsNone(target_image) =>
                /\ pc = "done"
                /\ returned = <<Outcome(FALSE, None, MsgNoOutput, used_seed)>>
                /\ ~Occurs("view", calls)
        /\ ~IsNone(target_image) => Occurs("view", calls) \/ pc = "get_image"

\* C9's case: the first node holds only a non-output image, the second node
\* an output image after a non-output one, and the output image is selected.
C9_Witness ==
    /\ pc = "get_image"
    /\ LET outputs == Get(Get(wait_result).result).outputs
       IN  /\ Len(outputs) = 2
           /\ outputs[1].has_images /\ Len(outputs[1].images) = 1
           /\ outputs[1].images[1].has_type /\ outputs[1].images[1].type = "temp"
           /\ Len(outputs[2].images) = 2
           /\ outputs[2].images[1].type = "temp"
           /\ outputs[2].images[2].type = "output"
    /\ Get(target_image).filename = 22

\* The template the prepare_workflow call worked on.
PreparedTemplate == workflows[Get(prepare_args).workflow_index]

\* A caller-supplied seed went through prepare_workflow and the graph was
\* submitted.
SeedSubmitted ==
    /\ ~IsNone(prepare_args)
    /\ ~IsNone(Get(prepare_args).seed)
    /\ ~IsNone(payload)

\* Every sampler of the role mapping's sampler list carries S under "seed"
\* in the submitted graph, and the seed reported as used is S.
SeedCarried(S) ==
    /\ \A c \in 1..Len(PreparedTemplate.node_mapping.sampler_nodes) :
        LET id == PreparedTemplate.node_mapping.sampler_nodes[c]
        IN  /\ HasNode(Get(payload), id)
            /\ Get(payload)[NodeIndex(Get(payload), id)].has_inputs
            /\ HasKey(Get(payload)[NodeIndex(Get(payload), id)].inputs, "seed")
            /\ Lookup(Get(payload)[NodeIndex(Get(payload), id)].inputs, "seed") = IntV(S)
    /\ ~FalsyStr(prompt_id) => used_seed = Some(S)

\* C10, as claimed: for every caller-supplied seed S, prepare_workflow with S
\* followed by the seed enforcement at submission leaves S in the seed field
\* of every sampler of the sampler list, and the seed reported as used is S.
C10_AnySeedCarried ==
    SeedSubmitted => SeedCarried(Get(Get(prepare_args).seed))

\* C10, amended: for every caller-supplied seed S other than the randomize
\* sentinel -1, prepare_workflow with S followed by the seed enforcement at
\* submission leaves S in the seed field of every sampler of the sampler
\* list, and the seed reported as used is S.
C10_ConcreteSeedCarried ==
    (SeedSubmitted /\ Get(Get(prepare_args).seed) # -1) =>
        SeedCarried(Get(Get(prepare_args).seed))

\* C10's case: a concrete caller seed replaced the sentinel of a template
\* with two samplers, the graph was submitted and the job accepted.
C10_Witness ==
    /\ SeedSubmitted
    /\ Get(Get(prepare_args).seed) \in RandomSeeds
    /\ Len(PreparedTemplate.node_mapping.sampler_nodes) = 2
    /\ \E i \in 1..Len(PreparedTemplate.workflow_data) :
        /\ PreparedTemplate.workflow_data[i].id = PreparedTemplate.node_mapping.sampler_node[1]
        /\ HasKey(PreparedTemplate.workflow_data[i].inputs, "seed")
        /\ Lookup(PreparedTemplate.workflow_data[i].inputs, "seed") = IntV(-1)
    /\ pc = "poll"
    /\ used_seed = Get(prepare_args).seed

\* The seed-named input fields of the sampler nodes of a graph: the pairs
\* <<node, input>> of their places.
SamplerSeedFields(graph) ==
    UNION {{<<i, j>> : j \in {h \in 1..Len(graph[i].inputs) :
                                 IsSeedKey(graph[i].inputs[h].name)}} :
           i \in {g \in 1..Len(graph) : /\ graph[g].is_dict /\ graph[g].has_inputs
                                        /\ graph[g].class_type \in SAMPLER_TYPES}}

\* C11, as claimed: once the job is accepted, the seed execute_workflow
\* reports (used_seed, which every later return carries) is the value of
\* every seed-named input field on the sampler nodes of the submitted graph.
C11_ReportedSeedIsGraphSeed ==
    (pc = "poll" /\ ~IsNone(prepare_args)) =>
        \A f \in SamplerSeedFields(Get(payload)) :
            Get(payload)[f[1]].inputs[f[2]].val = IntV(Get(used_seed))

\* The inputs of a graph that hold a link reference: <<node id, name, value>>.
LinkInputs(graph) ==
    UNION {{<<graph[i].id, graph[i].inputs[j].name, graph[i].inputs[j].val>> :
                j \in {h \in 1..Len(graph[i].inputs) : graph[i].inputs[h].val.k = "list"}} :
           i \in {g \in 1..Len(graph) : graph[g].is_dict /\ graph[g].has_inputs}}

\* The input of the submitted graph holds the value.
Submitted(id, name, val) ==
    /\ HasNode(Get(payload), id)
    /\ Get(payload)[NodeIndex(Get(payload), id)].has_inputs
    /\ HasKey(Get(payload)[NodeIndex(Get(payload), id)].inputs, name)
    /\ Lookup(Get(payload)[NodeIndex(Get(payload), id)].inputs, name) = val

\* The graph of a template went through prepare_workflow and was submitted.
TemplateSubmitted == ~IsNone(prepare_args) /\ ~IsNone(payload)

\* C12, as claimed: every input that holds a link reference in the template
\* holds the same link reference in the submitted graph.
C12_EveryLinkKept ==
    TemplateSubmitted =>
        \A l \in LinkInputs(PreparedTemplate.workflow_data) : Submitted(l[1], l[2], l[3])

\* The fields prepare_workflow and the seed enforcement are to write: the
\* text of the prompt-role nodes, the image of the load-image node, and
\* every seed-named input.
WrittenField(m, id, name) ==
    \/ IsSeedKey(name)
    \/ m.positive_prompt_node = Some(id) /\ name = positive_prompt_field
    \/ m.negative_prompt_node = Some(id) /\ name = negative_prompt_field
    \/ m.load_image_node = Some(id) /\ name = "image"

\* C12, amended: every input that holds a link reference in the template
\* holds the same link reference in the submitted graph, unless it is the
\* text field of a prompt-role node, the image field of the load-image node
\* or a seed-named input, which take literal values.
C12_LinksKeptOutsideWrittenFields ==
    TemplateSubmitted =>
        \A l \in LinkInputs(PreparedTemplate.workflow_data) :
            ~WrittenField(PreparedTemplate.node_mapping, l[1], l[2]) =>
                Submitted(l[1], l[2], l[3])

\* C12's case: a template whose sampler holds links to both prompt nodes
\* was prepared with an image and submitted, and the graph that was sent
\* differs from the template.
C12_Witness ==
    /\ TemplateSubmitted
    /\ <<"3", "positive", LinkV("6", 0)>> \in LinkInputs(PreparedTemplate.workflow_data)
    /\ <<"3", "negative", LinkV("7", 0)>> \in LinkInputs(PreparedTemplate.workflow_data)
    /\ ~IsNone(Get(prepare_args).input_image_filename)
    /\ Get(payload) # PreparedTemplate.workflow_data
    /\ Submitted("3", "positive", LinkV("6", 0))

\* The seed-named inputs of a graph: the pairs <<node, input>> of their places.
SeedFields(graph) ==
    UNION {{<<i, j>> : j \in {h \in 1..Len(graph[i].inputs) :
                                 IsSeedKey(graph[i].inputs[h].name)}} :
           i \in {g \in 1..Len(graph) : graph[g].is_dict /\ graph[g].has_inputs}}

\* A concrete number other than the sentinel.
ConcreteSeed(val) == IsNumber(val) /\ val.n # -1

\* The control values that let the backend change the seed.
MovingControls == {StrV("randomize"), StrV("increment"), StrV("decrement")}

\* C13: in every graph queue_prompt sends, every seed-named input of every
\* node with inputs holds a concrete number other than -1, no
\* control_after_generate is randomize, increment or decrement, and every
\* seed input that was concrete in the graph passed in has kept its value.
C13_SentGraphIsDeterministic ==
    ~IsNone(payload) =>
        /\ Len(Get(payload)) = Len(workflow)
        /\ \A f \in SeedFields(Get(payload)) :
            ConcreteSeed(Get(payload)[f[1]].inputs[f[2]].val)
        /\ \A i \in 1..Len(Get(payload)) :
            (Get(payload)[i].is_dict /\ Get(payload)[i].has_inputs) =>
                \A j \in 1..Len(Get(payload)[i].inputs) :
                    Get(payload)[i].inputs[j].name = "control_after_generate" =>
                        Get(payload)[i].inputs[j].val \notin MovingControls
        /\ \A f \in SeedFields(workflow) :
            ConcreteSeed(workflow[f[1]].inputs[f[2]].val) =>
                Get(payload)[f[1]].inputs[f[2]] = workflow[f[1]].inputs[f[2]]

\* C13's case: a graph with a sentinel seed under a randomize control and a
\* concrete seed on another node was sent.
C13_Witness ==
    /\ ~IsNone(payload)
    /\ \E f \in SeedFields(workflow) : workflow[f[1]].inputs[f[2]].val = IntV(-1)
    /\ \E f \in SeedFields(workflow) : ConcreteSeed(workflow[f[1]].inputs[f[2]].val)
    /\ \E i \in 1..Len(workflow) :
        /\ workflow[i].has_inputs
        /\ HasKey(workflow[i].inputs, "control_after_generate")
        /\ Lookup(workflow[i].inputs, "control_after_generate") = StrV("randomize")

\* The seed fields of a graph that sit on nodes of a sampler class.
SamplerClassSeedFields(graph) ==
    {f \in SeedFields(graph) : IsSamplerClass(graph[f[1]].class_type)}

\* The first seed field in node order, and in the order of the node's inputs.
FirstSeedField(graph) ==
    CHOOSE f \in SeedFields(graph) :
        \A h \in SeedFields(graph) : f[1] < h[1] \/ (f[1] = h[1] /\ f[2] <= h[2])

\* C14: the seed the enforcer reports for the graph it sent is the seed of a
\* sampler-class node whenever such a node has a seed field, else the first
\* seed in node order, and 0 only when the graph has no seed field.
C14_SamplerSeedReported ==
    (pc = "poll" /\ IsNone(known_seed)) =>
        LET g == Get(payload)
        IN  IF SamplerClassSeedFields(g) # {}
            THEN \E f \in SamplerClassSeedFields(g) :
                    used_seed = Some(g[f[1]].inputs[f[2]].val.n)
            ELSE IF SeedFields(g) # {}
            THEN used_seed = Some(g[FirstSeedField(g)[1]].inputs[FirstSeedField(g)[2]].val.n)
            ELSE used_seed = Some(0)

\* A graph the enforcer has nothing to do on: every seed field holds a
\* concrete number other than -1 and no control field lets the seed move.
AlreadyFixed(graph) ==
    /\ \A f \in SeedFields(graph) : ConcreteSeed(graph[f[1]].inputs[f[2]].val)
    /\ \A i \in 1..Len(graph) :
        (graph[i].is_dict /\ graph[i].has_inputs) =>
            \A j \in 1..Len(graph[i].inputs) :
                graph[i].inputs[j].name = "control_after_generate" =>
                    graph[i].inputs[j].val \notin MovingControls

\* What one run of the enforcer sent and reported, against a second run on
\* the graph that was sent.
EnforcedOnce ==
    ~IsNone(payload) =>
        /\ AlreadyFixed(workflow) =>
            /\ SeedFields(Get(payload)) = SeedFields(workflow)
            /\ \A f \in SeedFields(workflow) :
                Get(payload)[f[1]].inputs[f[2]] = workflow[f[1]].inputs[f[2]]
        /\ AlreadyFixed(Get(payload))
        /\ \A draws \in EnforceDraws(Get(payload)) :
            LET again == enforce_deterministic_workflow(Get(payload), draws)
            IN  /\ again.workflow = Get(payload)
                /\ (pc = "poll" /\ IsNone(known_seed)) => Some(again.seed) = used_seed

\* C15: the enforcer leaves the seed fields of a graph that is already fixed
\* as they are, a second run on the graph it returned returns the same graph
\* and reports the same seed, and no run changes the graph passed in.
C15_EnforcementIdempotent ==
    /\ []EnforcedOnce
    /\ [][workflow' = workflow]_vars

\* C15's case: the enforcer changed something in its copy, and the job was
\* accepted so that the seed was reported.
C15_Witness ==
    /\ pc = "poll"
    /\ IsNone(known_seed)
    /\ Get(payload) # workflow
    /\ SeedFields(Get(payload)) # {}
    /\ ~AlreadyFixed(workflow)

\* C16: no prepare_workflow call, and no later write to a graph it returned,
\* changes a template of the registry: its graph and its role mapping stay
\* what they were when loaded.
C16_TemplatesNeverChange == [][workflows' = workflows]_vars

\* C16's case: prepare_workflow returned a graph that differs from the
\* template, the graph was submitted, and the caller then wrote to it.
C16_Witness ==
    /\ ~IsNone(prepared)
    /\ ~IsNone(Get(prepared).workflow)
    /\ Get(Get(prepared).workflow) # workflows[Get(prepare_args).workflow_index].workflow_data
    /\ ~IsNone(payload)
    /\ workflow # Get(Get(prepared).workflow)

\* The template and the role mapping of the last prepare_workflow call.
PreparedInfo == workflows[Get(prepare_args).workflow_index]

\* The value a node of the returned graph holds under a key, if it holds one.
Returned(id, name, val) ==
    LET g == Get(Get(prepared).workflow)
    IN  /\ HasNode(g, id)
        /\ g[NodeIndex(g, id)].has_inputs
        /\ HasKey(g[NodeIndex(g, id)].inputs, name)
        /\ Lookup(g[NodeIndex(g, id)].inputs, name) = val

\* prepare_workflow was called without a seed on a template that has both
\* prompt roles and one sampler or more.
PreparedWithoutSeed ==
    /\ ~IsNone(prepared)
    /\ IsNone(Get(prepare_args).seed)
    /\ Get(prepare_args).workflow_index \in DOMAIN workflows
    /\ ~IsNone(PreparedInfo.node_mapping.positive_prompt_node)
    /\ ~IsNone(PreparedInfo.node_mapping.negative_prompt_node)
    /\ PreparedInfo.node_mapping.sampler_nodes # <<>>

\* C17: such a call returns a graph with the positive text in the positive
\* node's text field, the negative text in the negative node's text field,
\* and one seed of the random range on every sampler, which is the seed it
\* returns.
C17_PreparedGraphFilled ==
    PreparedWithoutSeed =>
        LET m == PreparedInfo.node_mapping
            res == Get(prepared)
        IN  /\ ~res.raised
            /\ ~IsNone(res.workflow)
            /\ ~IsNone(res.seed)
            /\ Get(res.seed) \in RandomSeeds
            /\ Returned(Get(m.positive_prompt_node), "text", StrV("a cat"))
            /\ Returned(Get(m.negative_prompt_node), "text", StrV("ugly, blurry"))
            /\ \A c \in 1..Len(m.sampler_nodes) :
                Returned(m.sampler_nodes[c], "seed", IntV(Get(res.seed)))

\* C18: _analyze_workflow_nodes returns a mapping and raises for no graph.
C18_ClassificationNeverRaises ==
    ~IsNone(analysis) => ~Get(analysis).raised

\* The prompt-encode nodes of a graph.
PromptEncodeIds(graph) ==
    {graph[i].id : i \in {h \in 1..Len(graph) :
                             graph[h].is_dict /\ graph[h].class_type \in CLIP_TEXT_ENCODE_TYPES}}

\* The id a link reference names directly.
DirectSource(ref) == ToStr(ref.items[1])

\* Node i is a sampler whose positive and negative inputs are linked
\* directly to the two prompt-encode nodes of the graph, one each.
LinksBothPrompts(graph, i) ==
    /\ graph[i].is_dict /\ graph[i].class_type \in SAMPLER_TYPES /\ graph[i].has_inputs
    /\ HasKey(graph[i].inputs, "positive") /\ HasKey(graph[i].inputs, "negative")
    /\ LET p == Lookup(graph[i].inputs, "positive")
           n == Lookup(graph[i].inputs, "negative")
       IN  /\ p.k = "list" /\ Len(p.items) >= 2
           /\ n.k = "list" /\ Len(n.items) >= 2
           /\ DirectSource(p) # DirectSource(n)
           /\ {DirectSource(p), DirectSource(n)} = PromptEncodeIds(graph)

\* C19: when a graph has two prompt-encode nodes and a sampler whose
\* positive and negative inputs are linked directly to them, classification
\* gives the positive role to the node that feeds the positive input and the
\* negative role to the node that feeds the negative input.
C19_LinkedPolarity ==
    ~IsNone(analysis) =>
        \A i \in 1..Len(workflow_data) :
            LinksBothPrompts(workflow_data, i) =>
                /\ ~Get(analysis).raised
                /\ Get(analysis).mapping.positive_prompt_node =
                       Some(DirectSource(Lookup(workflow_data[i].inputs, "positive")))
                /\ Get(analysis).mapping.negative_prompt_node =
                       Some(DirectSource(Lookup(workflow_data[i].inputs, "negative")))

\* Where a link reference leads: [ok, n, end], the number n of passthrough
\* nodes on the way and the first node that is none, when there is one
\* within fuel steps.
RECURSIVE ChainFrom(_, _, _)
ChainFrom(ref, graph, fuel) ==
    IF fuel = 0 \/ ref.k # "list" \/ Len(ref.items) < 2 \/ ~HasNode(graph, DirectSource(ref))
    THEN [ok |-> FALSE, n |-> 0, end |-> ""]
    ELSE
        LET node == graph[NodeIndex(graph, DirectSource(ref))]
        IN  IF ~node.is_dict THEN [ok |-> FALSE, n |-> 0, end |-> ""]
            ELSE IF node.class_type \notin PASSTHROUGH_TYPES
            THEN [ok |-> TRUE, n |-> 0, end |-> node.id]
            ELSE IF node.has_inputs /\ ~IsNone(FirstLinkInput(node.inputs))
            THEN LET rest == ChainFrom(Get(FirstLinkInput(node.inputs)), graph, fuel - 1)
                 IN  [rest EXCEPT !.n = @ + 1]
            ELSE [ok |-> FALSE, n |-> 0, end |-> ""]

\* The chain behind the reference of the last trace call.
TracedChain == ChainFrom(Get(traced).link_ref, workflow_data, Len(workflow_data) + 1)

\* The last trace call was on a reference that leads through at most `most`
\* passthrough nodes to a prompt-encode node.
TracedThroughChain(most) ==
    /\ ~IsNone(traced)
    /\ TracedChain.ok
    /\ TracedChain.n <= most
    /\ TracedChain.end \in PromptEncodeIds(workflow_data)

\* C20 as stated: a trace with the default depth through a chain of 0 to 10
\* passthrough nodes returns the id of the prompt-encode node at its end.
C20_ChainOfTenResolved ==
    TracedThroughChain(DefaultMaxDepth) =>
        ~Get(traced).raised /\ Get(traced).value = Some(TracedChain.end)

\* C20: a trace with the default depth through a chain of 0 to 9 passthrough
\* nodes returns the id of the prompt-encode node at its end.
C20_ChainOfNineResolved ==
    TracedThroughChain(DefaultMaxDepth - 1) =>
        ~Get(traced).raised /\ Get(traced).value = Some(TracedChain.end)

\* C20's case: the trace went through nine passthrough nodes.
C20_Witness ==
    /\ TracedThroughChain(DefaultMaxDepth - 1)
    /\ TracedChain.n = DefaultMaxDepth - 1
    /\ Get(traced).value = Some("6")

\* The first k nodes behind a link reference are passthrough nodes, each
\* with a link to the next.
RECURSIVE AllPassthrough(_, _, _)
AllPassthrough(ref, graph, k) ==
    \/ k = 0
    \/ /\ ref.k = "list" /\ Len(ref.items) >= 2 /\ HasNode(graph, DirectSource(ref))
       /\ LET node == graph[NodeIndex(graph, DirectSource(ref))]
          IN  /\ node.is_dict /\ node.class_type \in PASSTHROUGH_TYPES /\ node.has_inputs
              /\ ~IsNone(FirstLinkInput(node.inputs))
              /\ AllPassthrough(Get(FirstLinkInput(node.inputs)), graph, k - 1)

\* A chain that outlasts the default depth: a longer chain, or a cycle.
BeyondDepth(ref, graph) == AllPassthrough(ref, graph, DefaultMaxDepth)

\* The primary sampler of the classified graph: the first node of a sampler type.
PrimarySampler ==
    workflow_data[CHOOSE i \in 1..Len(workflow_data) :
        /\ workflow_data[i].is_dict /\ workflow_data[i].class_type \in SAMPLER_TYPES
        /\ \A h \in 1..(i - 1) :
            ~(workflow_data[h].is_dict /\ workflow_data[h].class_type \in SAMPLER_TYPES)]

\* The primary sampler's positive input leads into a chain beyond the depth.
PositiveBeyondDepth ==
    /\ \E i \in 1..Len(workflow_data) :
        workflow_data[i].is_dict /\ workflow_data[i].class_type \in SAMPLER_TYPES
    /\ Cardinality(PromptEncodeIds(workflow_data)) >= 2
    /\ PrimarySampler.has_inputs /\ HasKey(PrimarySampler.inputs, "positive")
    /\ BeyondDepth(Lookup(PrimarySampler.inputs, "positive"), workflow_data)

\* The trace of a chain beyond the depth returns None without raising.
TraceBeyondDepthIsNone ==
    (~IsNone(traced) /\ BeyondDepth(Get(traced).link_ref, workflow_data)) =>
        ~Get(traced).raised /\ IsNone(Get(traced).value)

\* C21 as stated: the trace of a chain beyond the depth returns None, and
\* classification gives the positive role to the immediate source of the link.
C21_FallbackYieldsDirectSource ==
    /\ TraceBeyondDepthIsNone
    /\ (~IsNone(analysis) /\ PositiveBeyondDepth) =>
        Get(analysis).mapping.positive_prompt_node =
            Some(DirectSource(Lookup(PrimarySampler.inputs, "positive")))

\* C21: the trace of a chain beyond the depth returns None; the immediate
\* source, a passthrough node, is no candidate, so the fallback assigns
\* nothing and the positive role goes to a prompt-encode node or to none.
C21_FallbackOnlyForCandidates ==
    /\ TraceBeyondDepthIsNone
    /\ (~IsNone(analysis) /\ PositiveBeyondDepth) =>
        /\ ~Get(analysis).raised
        /\ Get(analysis).mapping.positive_prompt_node #
               Some(DirectSource(Lookup(PrimarySampler.inputs, "positive")))
        /\ \/ IsNone(Get(analysis).mapping.positive_prompt_node)
           \/ Get(Get(analysis).mapping.positive_prompt_node) \in PromptEncodeIds(workflow_data)

\* C21's case: a graph whose primary sampler's positive input leads into a
\* chain beyond the depth was classified, and that link was traced.
C21_Witness ==
    /\ ~IsNone(analysis)
    /\ PositiveBeyondDepth
    /\ ~IsNone(traced)
    /\ Get(traced).link_ref = Lookup(PrimarySampler.inputs, "positive")
    /\ IsNone(Get(traced).value)

\* The candidates and the mapping the first pass hands to the polarity steps.
FirstPass ==
    analyze_pass(workflow_data, 1, [mapping |-> EmptyMapping, clip_text_nodes |-> <<>>])

\* The mapping after the link step, after the title step and after the
\* content step.
AfterLinks == link_step(workflow_data, FirstPass.clip_text_nodes, FirstPass.mapping)
AfterTitles == keyword_loop("title", workflow_data, FirstPass.clip_text_nodes, 1, AfterLinks)
AfterTexts == keyword_loop("text", workflow_data, FirstPass.clip_text_nodes, 1, AfterTitles)

\* The mappings of a classification that went through the polarity steps,
\* in the order of the steps; the last is what was returned.
PolaritySteps ==
    IF /\ ~IsNone(AfterLinks.mapping.positive_prompt_node)
       /\ ~IsNone(AfterLinks.mapping.negative_prompt_node)
    THEN <<AfterLinks.mapping, Get(analysis).mapping>>
    ELSE <<AfterLinks.mapping, AfterTitles.mapping, AfterTexts.mapping,
           Get(analysis).mapping>>

\* From mapping a to the later mapping b: a polarity that was assigned is
\* kept, and a polarity that is new goes to a candidate that holds none.
StepRespects(a, b) ==
    /\ ~IsNone(a.positive_prompt_node) => b.positive_prompt_node = a.positive_prompt_node
    /\ ~IsNone(a.negative_prompt_node) => b.negative_prompt_node = a.negative_prompt_node
    /\ b.positive_prompt_node # a.positive_prompt_node =>
           b.positive_prompt_node \notin {a.negative_prompt_node, b.negative_prompt_node}
    /\ b.negative_prompt_node # a.negative_prompt_node =>
           b.negative_prompt_node \notin {a.positive_prompt_node, b.positive_prompt_node}

\* A classification of two or more candidates that returned.
ClassifiedCandidates ==
    /\ ~IsNone(analysis)
    /\ ~Get(analysis).raised
    /\ Len(FirstPass.clip_text_nodes) >= 2

\* C22: no step of the polarity heuristic changes a polarity an earlier step
\* assigned (links, then titles, then texts, then order), and no step gives a
\* polarity to a candidate that already holds one.
C22_EarlierStepsWin ==
    ClassifiedCandidates =>
        \A i \in 1..Len(PolaritySteps) : \A j \in (i + 1)..Len(PolaritySteps) :
            StepRespects(PolaritySteps[i], PolaritySteps[j])

\* C22's case: the link step gave one polarity to a node whose title says
\* the opposite, a title gave the other, and the order step was left with a
\* candidate.
C22_Witness ==
    /\ ClassifiedCandidates
    /\ AfterLinks.mapping.positive_prompt_node = Some("7")
    /\ workflow_data[NodeIndex(workflow_data, "7")].title = StrV("Negative Prompt")
    /\ IsNone(AfterLinks.mapping.negative_prompt_node)
    /\ ~IsNone(AfterTitles.mapping.negative_prompt_node)
    /\ Len(FirstPass.clip_text_nodes) = 3
    /\ Get(analysis).mapping.positive_prompt_node = Some("7")

\* The classified graph has exactly one prompt-encode node.
OnePromptEncode ==
    Cardinality({i \in 1..Len(workflow_data) :
                    /\ workflow_data[i].is_dict
                    /\ workflow_data[i].class_type \in CLIP_TEXT_ENCODE_TYPES}) = 1

\* C23: a graph with exactly one prompt-encode node is classified with that
\* node as positive and with no negative node.
C23_SingleCandidateIsPositive ==
    (~IsNone(analysis) /\ OnePromptEncode) =>
        /\ ~Get(analysis).raised
        /\ {Get(analysis).mapping.positive_prompt_node} =
               {Some(id) : id \in PromptEncodeIds(workflow_data)}
        /\ IsNone(Get(analysis).mapping.negative_prompt_node)

\* C23's case: the one prompt-encode node has a negative title and feeds the
\* sampler's negative input.
C23_Witness ==
    /\ ~IsNone(analysis)
    /\ OnePromptEncode
    /\ HasNode(workflow_data, "6")
    /\ workflow_data[NodeIndex(workflow_data, "6")].title = StrV("Negative Prompt")
    /\ HasNode(workflow_data, "3")
    /\ HasKey(workflow_data[NodeIndex(workflow_data, "3")].inputs, "negative")
    /\ Get(analysis).mapping.positive_prompt_node = Some("6")

\* What a read of the registry returns on a registry r.
ReadOf(op, index, r, res) ==
    CASE op = "get_workflow" -> res.info = get_workflow(r, index)
      [] op = "list_workflows" -> res.listing = list_workflows(r)
      [] op = "get_workflow_count" -> res.count = get_workflow_count(r)
      [] op = "prepare_workflow" ->
            \E draw \in RandomSeeds :
                res.prepared = Some(prepare_workflow(r, index, "a cat", "ugly, blurry",
                                                     None, None, draw))

\* C24: the registry a step of any task finds is the complete load of what
\* the directory held at the last load or reload, and every read returns
\* what it returns on that complete registry.
C24_ReadersSeeCompleteRegistry ==
    /\ [](workflows = load_all_workflows(loaded_files))
    /\ [][observed' # observed =>
            ReadOf(Get(observed').op, Get(observed').index,
                   load_all_workflows(loaded_files), Get(observed').result)]_vars

\* C24's case: a read found a template under index 1, and a reload then
\* replaced the registry by one that holds the second file alone.
C24_Witness ==
    /\ loaded_files = files
    /\ Len(files) = 2
    /\ DOMAIN workflows = {2}
    /\ ~IsNone(observed)
    /\ Get(observed).op = "get_workflow"
    /\ Get(observed).index = 1
    /\ ~IsNone(Get(observed).result.info)

\* C25: after a load or reload every file that parses and classifies is in
\* the registry under its position among all the files of the directory,
\* with its graph and its mapping, and only the files that fail are missing.
C25_BadFileAloneSkipped ==
    /\ DOMAIN workflows \subseteq 1..Len(loaded_files)
    /\ \A i \in 1..Len(loaded_files) :
        IF IsNone(loaded_files[i]) \/ analyze_workflow_nodes(Get(loaded_files[i])).raised
        THEN i \notin DOMAIN workflows
        ELSE /\ i \in DOMAIN workflows
             /\ workflows[i].workflow_data = Get(loaded_files[i])
             /\ workflows[i].node_mapping = analyze_workflow_nodes(Get(loaded_files[i])).mapping

\* C25's case: a reload found a first file that fails and a second that
\* loads, where the registry held the first file before.
C25_Witness ==
    /\ Len(loaded_files) = 2
    /\ loaded_files = files
    /\ \/ IsNone(loaded_files[1])
       \/ analyze_workflow_nodes(Get(loaded_files[1])).raised
    /\ DOMAIN workflows = {2}
    /\ ~IsNone(observed)
    /\ Get(observed).op = "get_workflow_count"
    /\ Get(observed).result.count = 2

\* What get_history returned holds no terminal record of the job: the call
\* failed or answered a non-200 status (None), or the body lacks the job id
\* or the record lacks its outputs section.
NotYetAvailable ==
    \/ FalsyDict(history)
    \/ ~HasNode(Get(history), Get(prompt_id))
    \/ ~Get(history)[NodeIndex(Get(history), Get(prompt_id))].rec.has_outputs

\* C26: during polling, a history call that fails, answers a non-200 status,
\* or answers a body without the job id or without an outputs section does
\* not end the job: nothing is returned and the loop goes to its sleep; the
\* sleep lasts the interval at least and leads to the next pass, which polls
\* again unless the timeout is exceeded.
C26_IncompleteAnswerPollsAgain ==
    [][/\ (calls' = Append(calls, "history") /\ NotYetAvailable')
            => (pc' = "sleep" /\ returned' = returned)
       /\ (pc = "sleep" /\ pc' # pc)
            => (pc' = "poll" /\ clock' >= clock + PollInterval /\ returned' = returned)
       /\ (pc = "poll" /\ calls' # calls)
            => Last(calls') = IF timed_out(clock, start_time)
                              THEN "queue_delete" ELSE "history"]_vars

\* A job whose first poll gave no terminal record and whose second poll,
\* one sleep later, completed it.
C26_Witness ==
    /\ pc = "select_image"
    /\ calls = <<"prompt", "history", "history">>
    /\ clock >= PollInterval
    /\ ~NotYetAvailable

\* C27: as long as close is not called, the calls of the job's task and of
\* the caller's cancel task, however they interleave, go through one HTTP
\* session: none exists after construction, the first call constructs it,
\* and every later call of either task uses that same session.
C27_OneSharedSession ==
    /\ (session = "none") <=> (calls = <<>> /\ cancel_calls = <<>>)
    /\ session \in {"none", "open"}
    /\ Len(session_ids) = Len(calls) + Len(cancel_calls)
    /\ \A i \in 1..Len(session_ids) : session_ids[i] = session_ids[1]

\* Both tasks have made their calls, the caller's between the job's.
C27_Witness ==
    /\ cancel_calls = <<"queue_delete", "interrupt">>
    /\ Len(calls) >= 3
    /\ Last(calls) = "view"
    /\ session = "open"

\* wait_for_completion has just returned on a record of the job that has
\* its outputs section and a status of "error".
ErrorRecordSeen ==
    /\ pc = "done"
    /\ Last(calls) = "history"
    /\ ~FalsyDict(history)
    /\ HasNode(Get(history), Get(prompt_id))
    /\ LET rec == Get(history)[NodeIndex(Get(history), Get(prompt_id))].rec
       IN  rec.has_outputs /\ rec.status.has_status /\ rec.status.status_str = "error"

\* The messages the backend puts into the status of a failed job.
BackendMessages == {st.messages : st \in {s \in StatusObjects : s.status_str = "error"}}

\* The reason wait_for_completion gives for the record with another message.
ReasonWithMessage(rec, msg) ==
    Get(check_history(Some(<<[id |-> JobId,
                              rec |-> [rec EXCEPT !.status.messages = msg]]>>),
                      JobId)).status_msg

\* C28: the execution-error outcome carries the backend's message of the
\* record's status: the reason returned for the record differs from the
\* reason the same record with any other backend message gets.
C28_ErrorReasonCarriesMessage ==
    ErrorRecordSeen =>
        LET rec == Get(history)[NodeIndex(Get(history), Get(prompt_id))].rec
        IN  \A msg \in BackendMessages \ {rec.status.messages} :
                ReasonWithMessage(rec, msg) # Last(returned).status_msg

\* C29: with several jobs in flight on one backend, the timeout cancellation
\* of one job stops only that job: a job whose execution the backend
\* stopped was stopped by its own cancellation, never by the cancellation of
\* a job that was still queued or had already finished.
C29_TimeoutStopsOnlyItsJob ==
    \A j \in BackendJobs : backend.stopped_by[j] \in {"", j}

\* C30: an i2i command submits a job only from a template whose role
\* mapping has a load-image role, and the submitted graph holds the uploaded
\* image name in that node, also when the registry is reloaded while the
\* command is suspended between its load-image check and its prepare call.
C30_SubmittedGraphHoldsUpload ==
    i2i.pc = "submitted" =>
        LET node == Get(i2i.mapping).load_image_node
            graph == Get(i2i.workflow)
        IN  /\ ~FalsyStr(node)
            /\ HasNode(graph, Get(node))
            /\ HasKey(graph[NodeIndex(graph, Get(node))].inputs, "image")
            /\ Lookup(graph[NodeIndex(graph, Get(node))].inputs, "image")
                   = StrV(i2i.uploaded_name)

\* C32: whenever classification assigns both a positive and a negative
\* prompt node, they are two different nodes, so that the two texts
\* prepare_workflow writes never land in the same node.
C32_PolaritiesOnDifferentNodes ==
    (/\ ~IsNone(analysis)
     /\ ~Get(analysis).raised
     /\ ~FalsyStr(Get(analysis).mapping.positive_prompt_node)
     /\ ~FalsyStr(Get(analysis).mapping.negative_prompt_node))
        => Get(analysis).mapping.positive_prompt_node
               # Get(analysis).mapping.negative_prompt_node

\* The ids the roles of a mapping hold.
RoleIds(mapping) ==
    {Get(r) : r \in {q \in {mapping.positive_prompt_node, mapping.negative_prompt_node,
                             mapping.latent_image_node, mapping.sampler_node,
                             mapping.load_image_node, mapping.output_node} : ~IsNone(q)}}
    \cup {mapping.sampler_nodes[i] : i \in 1..Len(mapping.sampler_nodes)}

\* C33: on a graph with two or more prompt-encode nodes on which
\* classification returns, the positive and the negative role are both
\* assigned, each to a prompt-encode node of the graph, and a candidate that
\* holds neither of them is held by no role at all.
C33_BothPolaritiesAssigned ==
    (/\ ~IsNone(analysis)
     /\ ~Get(analysis).raised
     /\ Cardinality(PromptEncodeIds(workflow_data)) >= 2)
        => LET mapping == Get(analysis).mapping
           IN  /\ ~IsNone(mapping.positive_prompt_node)
               /\ ~IsNone(mapping.negative_prompt_node)
               /\ Get(mapping.positive_prompt_node) \in PromptEncodeIds(workflow_data)
               /\ Get(mapping.negative_prompt_node) \in PromptEncodeIds(workflow_data)
               /\ RoleIds(mapping) \cap PromptEncodeIds(workflow_data)
                      = {Get(mapping.positive_prompt_node),
                         Get(mapping.negative_prompt_node)}

\* C33's case: three candidates none of which is linked, titled or worded:
\* the order fallback gives the first two their roles and leaves the third.
C33_Witness ==
    /\ ~IsNone(analysis)
    /\ ~Get(analysis).raised
    /\ PromptEncodeIds(workflow_data) = {"6", "7", "8"}
    /\ IsNone(AfterTexts.mapping.positive_prompt_node)
    /\ IsNone(AfterTexts.mapping.negative_prompt_node)
    /\ Get(analysis).mapping.positive_prompt_node = Some("6")
    /\ Get(analysis).mapping.negative_prompt_node = Some("7")
    /\ "8" \notin RoleIds(Get(analysis).mapping)

\* The ids of the nodes of the classified graph whose class type is one of
\* types, in graph iteration order.
MatchingIds(types) ==
    LET places == SelectSeq([i \in 1..Len(workflow_data) |-> i],
                            LAMBDA i : /\ workflow_data[i].is_dict
                                       /\ workflow_data[i].class_type \in types)
    IN  [k \in 1..Len(places) |-> workflow_data[places[k]].id]

\* The last of a sequence of ids, or None.
LastId(ids) == IF ids = <<>> THEN None ELSE Some(ids[Len(ids)])

\* C34: the latent, load-image and output roles each hold the id of the
\* last node of the graph that matches their taxonomy, the primary sampler
\* is the first sampler-type node, and the sampler list holds every
\* sampler-type node in encounter order.
C34_LastRoleFirstSampler ==
    (~IsNone(analysis) /\ ~Get(analysis).raised) =>
        LET mapping == Get(analysis).mapping
        IN  /\ mapping.latent_image_node = LastId(MatchingIds(LATENT_IMAGE_TYPES))
            /\ mapping.load_image_node = LastId(MatchingIds(LOAD_IMAGE_TYPES))
            /\ mapping.output_node = LastId(MatchingIds(OUTPUT_TYPES))
            /\ mapping.sampler_nodes = MatchingIds(SAMPLER_TYPES)
            /\ mapping.sampler_node = IF MatchingIds(SAMPLER_TYPES) = <<>> THEN None
                                      ELSE Some(MatchingIds(SAMPLER_TYPES)[1])

\* C34's case: two load-image nodes around two samplers.
C34_Witness ==
    /\ ~IsNone(analysis)
    /\ ~Get(analysis).raised
    /\ MatchingIds(LOAD_IMAGE_TYPES) = <<"1", "4">>
    /\ MatchingIds(SAMPLER_TYPES) = <<"2", "3">>
    /\ Get(analysis).mapping.load_image_node = Some("4")
    /\ Get(analysis).mapping.sampler_node = Some("2")

\* C31: under any interleaving of gen and i2i commands, active_tasks is the
\* number of commands inside the section the semaphore guards, so it stays
\* between 0 and max_concurrent_tasks, and it is 0 once every command is
\* over, whether it succeeded, returned early, raised or was cancelled.
C31_CounterCountsCommandsInside ==
    /\ active_tasks = Cardinality(InSection)
    /\ 0 <= active_tasks
    /\ active_tasks <= MaxConcurrent
    /\ (\A c \in DOMAIN commands : commands[c].pc = "done") => active_tasks = 0

\* Three commands are over: one succeeded after waiting for the semaphore,
\* one returned early, one raised.
C31_Witness ==
    /\ DOMAIN commands # {}
    /\ \A c \in DOMAIN commands : commands[c].pc = "done"
    /\ \E c \in DOMAIN commands : commands[c].outcome = "succeeded" /\ commands[c].waited
    /\ \E c \in DOMAIN commands : commands[c].outcome = "returned_early"
    /\ \E c \in DOMAIN commands : commands[c].outcome = "raised"
    /\ active_tasks = 0

====
